---- MODULE Spec2Model ----
(***************************************************************************)
(* Model of the fusion / online weight-adaptation engine of the deepfake   *)
(* detector: RLAdaptiveFusion and FeedbackDatabase (deepFake/rl_system.py) *)
(* and the callers that drive them.                                        *)
(*                                                                         *)
(* Numbers.  Every probability, weight, learning rate and confidence is a  *)
(* fixed-point integer counted in units of 1/One (One = 10000, so 0.85 is  *)
(* 8500).  All inputs are multiples of 100 (two decimals) and are chosen   *)
(* so that learning_rate * user_confidence is again a multiple of 100;     *)
(* every product formed by the code is then exact in this unit.            *)
(*                                                                         *)
(* Files.  feedback_data is the content of "feedback_data.jsonl" (one      *)
(* entry per line, in order); rl_weights is the content of                 *)
(* "rl_weights.json".  Timestamps are left out of both (wall clock), and   *)
(* so is the 'performance' snapshot of rl_weights.json, which load_model   *)
(* never reads back.                                                       *)
(***************************************************************************)
EXTENDS Integers, Sequences, FiniteSets, TLC

VARIABLES
    video_weight,     \* RLAdaptiveFusion.video_weight
    audio_weight,     \* RLAdaptiveFusion.audio_weight
    learning_rate,    \* RLAdaptiveFusion.learning_rate
    rewards,          \* RLAdaptiveFusion.rewards (in memory)
    weight_history,   \* RLAdaptiveFusion.weight_history (in memory)
    feedback_data,    \* lines of feedback_data.jsonl
    rl_weights,       \* content of rl_weights.json
    fusion_strategy,  \* DeepFakeDetector.fusion_strategy: class and constructor parameters
    last_prediction,  \* main.last_prediction["video"]: the response stored for feedback
    last,             \* the call that returned last: name, raised?, return value
    pc,               \* per request thread: the statement it is about to run
    frame             \* per request thread: the call's arguments and locals

vars == <<video_weight, audio_weight, learning_rate, rewards, weight_history,
          feedback_data, rl_weights, fusion_strategy, last_prediction, last,
          pc, frame>>

\* the variables of the request threads
threads == <<pc, frame>>

----------------------------------------------------------------------------
(* Fixed point                                                             *)

One == 10000

\* a * b for two fixed-point numbers
Mul(a, b) == (a * b) \div One

Abs(x) == IF x < 0 THEN -x ELSE x

Min(a, b) == IF a < b THEN a ELSE b

Max(a, b) == IF a > b THEN a ELSE b

\* clip without its upper bound
clip_floor_only(x, lo, hi) == Max(x, lo)

\* a clip with the upper bound only
clip_ceiling_only(x, lo, hi) == Min(x, hi)

\* np.clip(x, lo, hi)
clip(x, lo, hi) == Min(Max(x, lo), hi)

\* the clamp bounds of update_from_feedback
MinVideoWeight == 5000

MaxVideoWeight == 9500

\* the implied target probability of a user label
TargetFake == 7500

TargetReal == 2500

----------------------------------------------------------------------------
(* Bounds and input sets                                                   *)

\* feedback entries written to feedback_data.jsonl in a run of Spec
MaxLog == 2

\* request threads that call into the shared RLAdaptiveFusion at once
NumThreads == 2

Threads == 1..NumThreads

\* None as the value of a score key (scores themselves are in 0..One)
NoneVal == -1

Labels == {"REAL", "FAKE", "SUSPICIOUS"}

\* initial_video_weight: 0.8 is the default, 0.9 is Config.VIDEO_WEIGHT and
\* 0.3 is a value Config.validate accepts (with AUDIO_WEIGHT = 0.7)
InitialVideoWeights == {3000, 8000, 9000}

\* learning_rate: 0.05 is the default and Config.RL_LEARNING_RATE
LearningRates == {500, 3000}

\* A prediction handed to update_from_feedback is a dict with a 'verdict'
\* and, when present, 'video_fake_score' and 'audio_fake_score'.
Prediction(verdict, video_fake_score, audio_fake_score) ==
    [verdict |-> verdict, video_fake_score |-> video_fake_score,
     audio_fake_score |-> audio_fake_score]

\* The feedback calls of Spec: (prediction, user_label, user_confidence)
Feedbacks ==
    { \* the prediction was right
      <<Prediction("FAKE", 8500, 1500), "FAKE", 10000>>,
      \* wrong, audio closer to the label
      <<Prediction("FAKE", 8500, 1500), "REAL", 10000>>,
      \* wrong, video closer to the label
      <<Prediction("FAKE", 2000, 7000), "REAL", 10000>>,
      \* wrong, both equally far
      <<Prediction("REAL", 5000, 5000), "FAKE", 8000>>,
      \* wrong, audio_fake_score is None (what _format_response gives without audio)
      <<Prediction("FAKE", 8000, NoneVal), "REAL", 10000>>,
      \* wrong, no audio_fake_score key
      <<[verdict |-> "REAL", video_fake_score |-> 2000], "SUSPICIOUS", 8000>> }

\* the constructor storing its arguments as given
DetectionResult_unclamped(fake_probability, real_probability, metadata) ==
    [fake_probability |-> fake_probability,
     real_probability |-> real_probability,
     metadata |-> metadata]

\* DetectionResult.__init__: each probability is clamped to [0,1]
DetectionResult(fake_probability, real_probability, metadata) ==
    [fake_probability |-> Max(0, Min(One, fake_probability)),
     real_probability |-> Max(0, Min(One, real_probability)),
     metadata |-> metadata]

VideoResults == { DetectionResult(f, One - f, [source |-> "local"]) : f \in {8500} }

\* audio_result: None, a valid result, or a result carrying an 'error' key
AudioNone == [is_none |-> TRUE]

AudioResults ==
    {AudioNone}
    \cup { DetectionResult(f, One - f, [source |-> "local"]) : f \in {1500} }
    \cup { DetectionResult(5000, 5000, [error |-> "audio failed"]) }

----------------------------------------------------------------------------
(* Files                                                                   *)

\* a file that does not exist
NoFile == [exists |-> FALSE]

\* feedback_data.jsonl holding the given lines
FeedbackFile(lines) == [exists |-> TRUE, lines |-> lines]

\* the two weights written under each other's key
WeightFile_swapped(vw, aw) == [exists |-> TRUE, video_weight |-> aw, audio_weight |-> vw]

\* json.dump(model_data) in save_model followed by json.load in load_model:
\* the parsed object has the keys save_model wrote
WeightFile(vw, aw) == [exists |-> TRUE, video_weight |-> vw, audio_weight |-> aw]

\* rl_weights.json holding text that is not JSON (an interrupted or foreign write)
MalformedFile == [exists |-> TRUE, malformed |-> TRUE]

----------------------------------------------------------------------------
(* FeedbackDatabase                                                        *)

\* open(filepath, 'w') without the os.path.exists test
ensure_file_exists_truncating(file) == FeedbackFile(<<>>)

\* _ensure_file_exists: create the file, empty, only if it is not there
ensure_file_exists(file) ==
    IF ~file.exists THEN FeedbackFile(<<>>) ELSE file

\* the record add_feedback writes (update_from_feedback passes no metadata)
feedback_entry(prediction, user_label, confidence) ==
    [prediction |-> prediction, user_label |-> user_label, user_confidence |-> confidence]

\* add_feedback: open(filepath, 'a') and write one line
add_feedback(file, prediction, user_label, confidence) ==
    FeedbackFile(Append(file.lines, feedback_entry(prediction, user_label, confidence)))

\* get_all_feedback: the parsed lines, in file order
get_all_feedback(file) == file.lines

\* get_stats counting the entries whose verdict differs from the label
feedback_stats_inverted(file) ==
    LET feedback == get_all_feedback(file)
        total == Len(feedback)
        correct == Cardinality({ i \in 1..total :
                       feedback[i].prediction.verdict # feedback[i].user_label })
    IN  IF total = 0
        THEN [total |-> 0, accuracy |-> 0, correct |-> 0, incorrect |-> 0]
        ELSE [total |-> total,
              accuracy |-> (correct * One) \div total,
              correct |-> correct,
              incorrect |-> total - correct]

\* the dict get_stats returns; correct / total is rounded down to 1/One
feedback_stats(file) ==
    LET feedback == get_all_feedback(file)
        total == Len(feedback)
        correct == Cardinality({ i \in 1..total :
                       feedback[i].prediction.verdict = feedback[i].user_label })
    IN  IF total = 0
        THEN [total |-> 0, accuracy |-> 0, correct |-> 0, incorrect |-> 0]
        ELSE [total |-> total,
              accuracy |-> (correct * One) \div total,
              correct |-> correct,
              incorrect |-> total - correct]

----------------------------------------------------------------------------
(* RLAdaptiveFusion                                                        *)

\* the strategy DeepFakeDetector builds for FUSION_MODE 'rl_adaptive'; the
\* attributes of the RLAdaptiveFusion object are the variables video_weight,
\* audio_weight, learning_rate, rewards and weight_history
RLAdaptive == [class |-> "RLAdaptiveFusion"]

NoReturn == [none |-> TRUE]

\* last_prediction["video"] is None: nothing has been analysed yet
NoPrediction == [is_none |-> TRUE]

\* a request thread that has not entered a call
IdleFrame == [op |-> "idle"]

Returned(op, ret) == [op |-> op, raised |-> FALSE, ret |-> ret]

Raised(op, error) == [op |-> op, raised |-> TRUE, ret |-> [error |-> error]]

\* RLAdaptiveFusion(initial_video_weight, learning_rate): also what a process
\* restart does; the files on disk survive it.
RLAdaptiveFusion_init(initial_video_weight, lr) ==
    /\ video_weight' = initial_video_weight
    /\ audio_weight' = One - initial_video_weight
    /\ learning_rate' = lr
    /\ feedback_data' = ensure_file_exists(feedback_data)
    /\ rewards' = <<>>
    /\ weight_history' = <<>>
    /\ last' = Returned("init", NoReturn)
    /\ UNCHANGED <<rl_weights, threads, fusion_strategy,
                   last_prediction>>

\* DetectionResult.to_dict
to_dict(r) ==
    [fake_probability |-> r.fake_probability,
     real_probability |-> r.real_probability,
     is_fake |-> r.fake_probability > r.real_probability,
     confidence |-> Max(r.fake_probability, r.real_probability),
     metadata |-> r.metadata]

\* the test without "'error' in audio_result.metadata"
NoValidAudio_none_only(audio_result) == "is_none" \in DOMAIN audio_result

\* audio_result is None or 'error' in audio_result.metadata
NoValidAudio(audio_result) ==
    \/ "is_none" \in DOMAIN audio_result
    \/ "error" \in DOMAIN audio_result.metadata

\* fuse clamping the video weight it reads into the range of the update rule
rl_fuse_clamping(vw, aw, video_result, audio_result) ==
    IF NoValidAudio(audio_result)
    THEN DetectionResult(video_result.fake_probability,
                         video_result.real_probability,
                         [fusion_type |-> "rl_adaptive",
                          video_only |-> TRUE,
                          video_result |-> to_dict(video_result)])
    ELSE LET cw == clip(vw, MinVideoWeight, MaxVideoWeight)
             fused_fake == Mul(cw, video_result.fake_probability)
                           + Mul(One - cw, audio_result.fake_probability)
             fused_real == One - fused_fake
         IN  DetectionResult(fused_fake, fused_real,
                         [fusion_type |-> "rl_adaptive",
                          video_weight |-> cw,
                          audio_weight |-> One - cw,
                          video_result |-> to_dict(video_result),
                          audio_result |-> to_dict(audio_result)])

\* the DetectionResult fuse returns when the weights it reads are vw and aw
rl_fuse(vw, aw, video_result, audio_result) ==
    IF NoValidAudio(audio_result)
    THEN DetectionResult(video_result.fake_probability,
                         video_result.real_probability,
                         [fusion_type |-> "rl_adaptive",
                          video_only |-> TRUE,
                          video_result |-> to_dict(video_result)])
    ELSE LET fused_fake == Mul(vw, video_result.fake_probability)
                           + Mul(aw, audio_result.fake_probability)
             fused_real == One - fused_fake
         IN  DetectionResult(fused_fake, fused_real,
                         [fusion_type |-> "rl_adaptive",
                          video_weight |-> vw,
                          audio_weight |-> aw,
                          video_result |-> to_dict(video_result),
                          audio_result |-> to_dict(audio_result)])

\* fuse also recording the pair it used in weight_history
fuse_tracking(video_result, audio_result) ==
    /\ last' = Returned("fuse", rl_fuse(video_weight, audio_weight,
                                        video_result, audio_result))
    /\ weight_history' = Append(weight_history,
                                [video_weight |-> video_weight,
                                 audio_weight |-> audio_weight,
                                 reward |-> 0])
    /\ UNCHANGED <<video_weight, audio_weight, learning_rate, rewards,
                   feedback_data, rl_weights, threads, fusion_strategy,
                   last_prediction>>

\* RLAdaptiveFusion.fuse: reads the two weights, assigns nothing
fuse(video_result, audio_result) ==
    /\ last' = Returned("fuse", rl_fuse(video_weight, audio_weight,
                                        video_result, audio_result))
    /\ UNCHANGED <<video_weight, audio_weight, learning_rate, rewards,
                   weight_history, feedback_data, rl_weights, threads, fusion_strategy,
                   last_prediction>>

\* was_correct = (prediction['verdict'] == user_label)
was_correct(prediction, user_label) == prediction.verdict = user_label

\* reward = (1.0 if was_correct else -1.0) * user_confidence
reward_of(prediction, user_label, user_confidence) ==
    IF was_correct(prediction, user_label) THEN user_confidence ELSE -user_confidence

\* the guard without the was_correct test
qualifies_any_verdict(prediction, user_label) ==
    /\ "video_fake_score" \in DOMAIN prediction
    /\ "audio_fake_score" \in DOMAIN prediction
    /\ prediction.audio_fake_score # NoneVal

\* the guard without the 'audio_score is not None' test
qualifies_none_audio(prediction, user_label) ==
    /\ ~was_correct(prediction, user_label)
    /\ "video_fake_score" \in DOMAIN prediction
    /\ "audio_fake_score" \in DOMAIN prediction

\* the guard of the weight update: the prediction was wrong, both score keys
\* are in the dict and audio_fake_score is not None
qualifies(prediction, user_label) ==
    /\ ~was_correct(prediction, user_label)
    /\ "video_fake_score" \in DOMAIN prediction
    /\ "audio_fake_score" \in DOMAIN prediction
    /\ prediction.audio_fake_score # NoneVal

\* the update with 'video_error <= audio_error': a tie raises the video weight
new_video_weight_tie_up(vw, lr, prediction, user_label, user_confidence) ==
    LET user_is_fake == (user_label = "FAKE" \/ user_label = "SUSPICIOUS")
        user_fake_prob == IF user_is_fake THEN TargetFake ELSE TargetReal
        video_error == Abs(prediction.video_fake_score - user_fake_prob)
        audio_error == Abs(prediction.audio_fake_score - user_fake_prob)
        adjustment == Mul(lr, user_confidence)
    IN  IF video_error <= audio_error
        THEN clip(vw + adjustment, MinVideoWeight, MaxVideoWeight)
        ELSE clip(vw - adjustment, MinVideoWeight, MaxVideoWeight)

\* the value assigned to self.video_weight, given the value vw read from it
new_video_weight(vw, lr, prediction, user_label, user_confidence) ==
    LET user_is_fake == (user_label = "FAKE" \/ user_label = "SUSPICIOUS")
        user_fake_prob == IF user_is_fake THEN TargetFake ELSE TargetReal
        video_error == Abs(prediction.video_fake_score - user_fake_prob)
        audio_error == Abs(prediction.audio_fake_score - user_fake_prob)
        adjustment == Mul(lr, user_confidence)
    IN  IF video_error < audio_error
        THEN clip(vw + adjustment, MinVideoWeight, MaxVideoWeight)
        ELSE clip(vw - adjustment, MinVideoWeight, MaxVideoWeight)

\* the update without line 218: audio_weight keeps its value
new_audio_weight_kept(vw) == audio_weight

\* self.audio_weight = 1.0 - self.video_weight
new_audio_weight(vw) == One - vw

update_from_feedback(prediction, user_label, user_confidence) ==
    /\ feedback_data' = add_feedback(feedback_data, prediction, user_label, user_confidence)
    /\ IF "verdict" \notin DOMAIN prediction
       THEN \* prediction['verdict'] raises KeyError
            /\ last' = Raised("update_from_feedback", "KeyError")
            /\ UNCHANGED <<video_weight, audio_weight, rewards, weight_history>>
       ELSE
            /\ rewards' = Append(rewards, reward_of(prediction, user_label, user_confidence))
            /\ IF ~qualifies(prediction, user_label)
               THEN /\ last' = Returned("update_from_feedback", NoReturn)
                    /\ UNCHANGED <<video_weight, audio_weight, weight_history>>
               ELSE IF prediction.video_fake_score = NoneVal
               THEN \* None - float raises TypeError
                    /\ last' = Raised("update_from_feedback", "TypeError")
                    /\ UNCHANGED <<video_weight, audio_weight, weight_history>>
               ELSE
                    /\ video_weight' = new_video_weight(video_weight, learning_rate,
                                            prediction, user_label, user_confidence)
                    /\ audio_weight' = new_audio_weight(video_weight')
                    /\ weight_history' = Append(weight_history,
                            [video_weight |-> video_weight',
                             audio_weight |-> audio_weight',
                             reward |-> reward_of(prediction, user_label, user_confidence)])
                    /\ last' = Returned("update_from_feedback", NoReturn)
    /\ UNCHANGED <<learning_rate, rl_weights, threads, fusion_strategy,
                   last_prediction>>

\* save_model: open(filepath, 'w') and json.dump
save_model ==
    /\ rl_weights' = WeightFile(video_weight, audio_weight)
    /\ last' = Returned("save_model", NoReturn)
    /\ UNCHANGED <<video_weight, audio_weight, learning_rate, rewards,
                   weight_history, feedback_data, threads, fusion_strategy,
                   last_prediction>>

\* load_model assigning video_weight only
load_model_video_only ==
    /\ IF ~rl_weights.exists
       THEN /\ last' = Returned("load_model", [value |-> FALSE])
            /\ UNCHANGED <<video_weight, audio_weight>>
       ELSE IF "malformed" \in DOMAIN rl_weights
       THEN /\ last' = Raised("load_model", "JSONDecodeError")
            /\ UNCHANGED <<video_weight, audio_weight>>
       ELSE IF "video_weight" \notin DOMAIN rl_weights
       THEN /\ last' = Raised("load_model", "KeyError")
            /\ UNCHANGED <<video_weight, audio_weight>>
       ELSE /\ video_weight' = rl_weights.video_weight
            /\ last' = Returned("load_model", [value |-> TRUE])
            /\ UNCHANGED audio_weight
    /\ UNCHANGED <<learning_rate, rewards, weight_history, feedback_data,
                   rl_weights, threads, fusion_strategy,
                   last_prediction>>

\* load_model: no statement of it is inside a try, so what json.load or a
\* missing key raises leaves it at the statement that raised
load_model ==
    /\ IF ~rl_weights.exists
       THEN /\ last' = Returned("load_model", [value |-> FALSE])
            /\ UNCHANGED <<video_weight, audio_weight>>
       ELSE IF "malformed" \in DOMAIN rl_weights
       THEN \* json.load raises
            /\ last' = Raised("load_model", "JSONDecodeError")
            /\ UNCHANGED <<video_weight, audio_weight>>
       ELSE IF "video_weight" \notin DOMAIN rl_weights
       THEN \* model_data['video_weight'] raises
            /\ last' = Raised("load_model", "KeyError")
            /\ UNCHANGED <<video_weight, audio_weight>>
       ELSE IF "audio_weight" \notin DOMAIN rl_weights
       THEN \* video_weight is already assigned when model_data['audio_weight'] raises
            /\ video_weight' = rl_weights.video_weight
            /\ last' = Raised("load_model", "KeyError")
            /\ UNCHANGED audio_weight
       ELSE /\ video_weight' = rl_weights.video_weight
            /\ audio_weight' = rl_weights.audio_weight
            /\ last' = Returned("load_model", [value |-> TRUE])
    /\ UNCHANGED <<learning_rate, rewards, weight_history, feedback_data,
                   rl_weights, threads, fusion_strategy,
                   last_prediction>>

----------------------------------------------------------------------------
(* One caller driving one RLAdaptiveFusion at a time                       *)

Init ==
    /\ \E w \in InitialVideoWeights :
          /\ video_weight = w
          /\ audio_weight = One - w
    /\ learning_rate \in LearningRates
    /\ rewards = <<>>
    /\ weight_history = <<>>
    /\ feedback_data = ensure_file_exists(NoFile)
    /\ rl_weights = NoFile
    /\ fusion_strategy = RLAdaptive
    /\ last = Returned("init", NoReturn)
    /\ last_prediction = NoPrediction
    /\ pc = [t \in Threads |-> "idle"]
    /\ frame = [t \in Threads |-> IdleFrame]

Construct ==
    \E w \in InitialVideoWeights, lr \in LearningRates : RLAdaptiveFusion_init(w, lr)

Fuse ==
    \E v \in VideoResults, a \in AudioResults : fuse(v, a)

UpdateFromFeedback ==
    /\ Len(feedback_data.lines) < MaxLog
    /\ \E f \in Feedbacks : update_from_feedback(f[1], f[2], f[3])

Next ==
    \/ Construct
    \/ Fuse
    \/ UpdateFromFeedback
    \/ save_model
    \/ load_model

Spec == Init /\ [][Next]_vars

----------------------------------------------------------------------------
(* update_from_feedback on its own: one call, from any weight pair an      *)
(* instance can hold, with every combination of the inputs below.          *)

\* update_from_feedback calls in a run of UpdateSpec
MaxUpdates == 1

\* video_weight before the call: below, at, inside and above the clamp range
AnyVideoWeights == {3000, 5000, 5200, 8000, 9000, 9500}

AnyLearningRates == {0, 500, 3000}

UserConfidences == {0, 8000, 10000}

\* score pairs: video closer to REAL, video closer to FAKE, equally far, and
\* None for either score
ScorePairs ==
    {<<2000, 7000>>, <<8500, 1500>>, <<5000, 5000>>, <<8000, NoneVal>>, <<NoneVal, 7000>>}

Predictions ==
    { Prediction(v, s[1], s[2]) : v \in {"REAL", "FAKE"}, s \in ScorePairs }
    \cup { [verdict |-> v, video_fake_score |-> 8000] : v \in {"REAL", "FAKE"} }
    \cup { [verdict |-> v, audio_fake_score |-> 7000] : v \in {"REAL", "FAKE"} }
    \cup { [verdict |-> v] : v \in {"REAL", "FAKE"} }

UpdateInit ==
    /\ video_weight \in AnyVideoWeights
    /\ audio_weight = One - video_weight
    /\ learning_rate \in AnyLearningRates
    /\ rewards = <<>>
    /\ weight_history = <<>>
    /\ feedback_data = ensure_file_exists(NoFile)
    /\ rl_weights = NoFile
    /\ fusion_strategy = RLAdaptive
    /\ last = Returned("init", NoReturn)
    /\ last_prediction = NoPrediction
    /\ pc = [t \in Threads |-> "idle"]
    /\ frame = [t \in Threads |-> IdleFrame]

UpdateNext ==
    /\ Len(feedback_data.lines) < MaxUpdates
    /\ \E p \in Predictions, l \in Labels, c \in UserConfidences :
          update_from_feedback(p, l, c)

UpdateSpec == UpdateInit /\ [][UpdateNext]_vars

----------------------------------------------------------------------------
(* Request threads sharing one RLAdaptiveFusion.  The code takes no lock,  *)
(* so a thread can be preempted between any two reads or writes of the     *)
(* attributes self.video_weight and self.audio_weight.  Each thread makes  *)
(* one call, fuse or update_from_feedback, one statement at a time.        *)

\* the calls the threads make
ConcFeedbacks ==
    { <<Prediction("FAKE", 8500, 1500), "REAL", 10000>>,
      <<Prediction("FAKE", 2000, 7000), "REAL", 10000>>,
      <<Prediction("FAKE", 8000, NoneVal), "REAL", 10000>> }

ConcAudioResults ==
    { AudioNone, DetectionResult(1500, 8500, [source |-> "local"]) }

\* the instance the threads share: RLAdaptiveFusion() with its defaults
DefaultVideoWeight == 8000

DefaultLearningRate == 500

ConcInit ==
    /\ video_weight = DefaultVideoWeight
    /\ audio_weight = One - DefaultVideoWeight
    /\ learning_rate = DefaultLearningRate
    /\ rewards = <<>>
    /\ weight_history = <<>>
    /\ feedback_data = ensure_file_exists(NoFile)
    /\ rl_weights = NoFile
    /\ fusion_strategy = RLAdaptive
    /\ last = Returned("init", NoReturn)
    /\ last_prediction = NoPrediction
    /\ pc = [t \in Threads |-> "idle"]
    /\ frame = [t \in Threads |-> IdleFrame]

\* thread t moves to label, its frame becoming f
Step(t, label, f) ==
    /\ pc' = [pc EXCEPT ![t] = label]
    /\ frame' = [frame EXCEPT ![t] = f]

\* thread t reads a shared attribute into its frame
Read(t, value) == [frame[t] EXCEPT !.reads = Append(@, value)]

\* thread t leaves its call
Return(t, outcome) == [ret |-> outcome] @@ frame[t]

\* rl_system.py 139-149: enter fuse; the video-only result reads no weight
CallFuse(t) ==
    /\ pc[t] = "idle"
    /\ \E v \in VideoResults, a \in ConcAudioResults :
          LET f == [op |-> "fuse", video_result |-> v, audio_result |-> a,
                    reads |-> <<>>]
          IN  IF NoValidAudio(a)
              THEN Step(t, "done", [ret |-> Returned("fuse",
                       rl_fuse(video_weight, audio_weight, v, a))] @@ f)
              ELSE Step(t, "fuse_read_video", f)
    /\ UNCHANGED <<video_weight, audio_weight, learning_rate, rewards,
                   weight_history, feedback_data, rl_weights, last, fusion_strategy,
                   last_prediction>>

\* rl_system.py 152: self.video_weight * video_result.fake_probability
FuseReadVideo(t) ==
    /\ pc[t] = "fuse_read_video"
    /\ Step(t, "fuse_read_audio", Read(t, video_weight))
    /\ UNCHANGED <<video_weight, audio_weight, learning_rate, rewards,
                   weight_history, feedback_data, rl_weights, last, fusion_strategy,
                   last_prediction>>

\* rl_system.py 153: self.audio_weight * audio_result.fake_probability
FuseReadAudio(t) ==
    /\ pc[t] = "fuse_read_audio"
    /\ Step(t, "fuse_meta_video", Read(t, audio_weight))
    /\ UNCHANGED <<video_weight, audio_weight, learning_rate, rewards,
                   weight_history, feedback_data, rl_weights, last, fusion_strategy,
                   last_prediction>>

\* rl_system.py 164: 'video_weight': self.video_weight
FuseMetaVideo(t) ==
    /\ pc[t] = "fuse_meta_video"
    /\ Step(t, "fuse_meta_audio", Read(t, video_weight))
    /\ UNCHANGED <<video_weight, audio_weight, learning_rate, rewards,
                   weight_history, feedback_data, rl_weights, last, fusion_strategy,
                   last_prediction>>

\* rl_system.py 165-169: 'audio_weight': self.audio_weight, and return
FuseReturn(t) ==
    /\ pc[t] = "fuse_meta_audio"
    /\ LET f == Read(t, audio_weight)
           r == rl_fuse(f.reads[1], f.reads[2], f.video_result, f.audio_result)
           m == [r.metadata EXCEPT !.video_weight = f.reads[3],
                                   !.audio_weight = f.reads[4]]
       IN  Step(t, "done", [ret |-> Returned("fuse", [r EXCEPT !.metadata = m])] @@ f)
    /\ UNCHANGED <<video_weight, audio_weight, learning_rate, rewards,
                   weight_history, feedback_data, rl_weights, last, fusion_strategy,
                   last_prediction>>

\* rl_system.py 171: enter update_from_feedback
CallUpdate(t) ==
    /\ pc[t] = "idle"
    /\ \E fb \in ConcFeedbacks :
          Step(t, "add_feedback",
               [op |-> "update_from_feedback", prediction |-> fb[1],
                user_label |-> fb[2], user_confidence |-> fb[3], reads |-> <<>>])
    /\ UNCHANGED <<video_weight, audio_weight, learning_rate, rewards,
                   weight_history, feedback_data, rl_weights, last, fusion_strategy,
                   last_prediction>>

\* rl_system.py 182: the line is written by one write in append mode
AddFeedback(t) ==
    /\ pc[t] = "add_feedback"
    /\ feedback_data' = add_feedback(feedback_data, frame[t].prediction,
                                     frame[t].user_label, frame[t].user_confidence)
    /\ Step(t, "append_reward", frame[t])
    /\ UNCHANGED <<video_weight, audio_weight, learning_rate, rewards,
                   weight_history, rl_weights, last, fusion_strategy,
                   last_prediction>>

\* rl_system.py 185-198: the reward, and the guard of the weight update
AppendReward(t) ==
    /\ pc[t] = "append_reward"
    /\ LET f == frame[t] IN
       IF "verdict" \notin DOMAIN f.prediction
       THEN /\ Step(t, "done", Return(t, Raised("update_from_feedback", "KeyError")))
            /\ UNCHANGED rewards
       ELSE /\ rewards' = Append(rewards,
                   reward_of(f.prediction, f.user_label, f.user_confidence))
            /\ IF ~qualifies(f.prediction, f.user_label)
               THEN Step(t, "done", Return(t, Returned("update_from_feedback", NoReturn)))
               ELSE IF f.prediction.video_fake_score = NoneVal
               THEN Step(t, "done", Return(t, Raised("update_from_feedback", "TypeError")))
               ELSE Step(t, "read_video_weight", f)
    /\ UNCHANGED <<video_weight, audio_weight, learning_rate, weight_history,
                   feedback_data, rl_weights, last, fusion_strategy,
                   last_prediction>>

\* rl_system.py 210/215: the right-hand side reads self.video_weight
ReadVideoWeight(t) ==
    /\ pc[t] = "read_video_weight"
    /\ Step(t, "write_video_weight", Read(t, video_weight))
    /\ UNCHANGED <<video_weight, audio_weight, learning_rate, rewards,
                   weight_history, feedback_data, rl_weights, last, fusion_strategy,
                   last_prediction>>

\* rl_system.py 210/215: self.video_weight = np.clip(...)
WriteVideoWeight(t) ==
    /\ pc[t] = "write_video_weight"
    /\ LET f == frame[t] IN
       video_weight' = new_video_weight(f.reads[1], learning_rate, f.prediction,
                                        f.user_label, f.user_confidence)
    /\ Step(t, "read_new_video_weight", frame[t])
    /\ UNCHANGED <<audio_weight, learning_rate, rewards, weight_history,
                   feedback_data, rl_weights, last, fusion_strategy,
                   last_prediction>>

\* rl_system.py 218: the right-hand side reads self.video_weight
ReadNewVideoWeight(t) ==
    /\ pc[t] = "read_new_video_weight"
    /\ Step(t, "write_audio_weight", Read(t, video_weight))
    /\ UNCHANGED <<video_weight, audio_weight, learning_rate, rewards,
                   weight_history, feedback_data, rl_weights, last, fusion_strategy,
                   last_prediction>>

\* rl_system.py 218: self.audio_weight = 1.0 - ...
WriteAudioWeight(t) ==
    /\ pc[t] = "write_audio_weight"
    /\ audio_weight' = new_audio_weight(frame[t].reads[2])
    /\ Step(t, "append_history", frame[t])
    /\ UNCHANGED <<video_weight, learning_rate, rewards, weight_history,
                   feedback_data, rl_weights, last, fusion_strategy,
                   last_prediction>>

\* rl_system.py 220-228: weight_history.append, and return
AppendHistory(t) ==
    /\ pc[t] = "append_history"
    /\ LET f == frame[t] IN
       weight_history' = Append(weight_history,
            [video_weight |-> video_weight,
             audio_weight |-> audio_weight,
             reward |-> reward_of(f.prediction, f.user_label, f.user_confidence)])
    /\ Step(t, "done", Return(t, Returned("update_from_feedback", NoReturn)))
    /\ UNCHANGED <<video_weight, audio_weight, learning_rate, rewards,
                   feedback_data, rl_weights, last, fusion_strategy,
                   last_prediction>>

ConcNext ==
    \E t \in Threads :
        \/ CallFuse(t)
        \/ FuseReadVideo(t)
        \/ FuseReadAudio(t)
        \/ FuseMetaVideo(t)
        \/ FuseReturn(t)
        \/ CallUpdate(t)
        \/ AddFeedback(t)
        \/ AppendReward(t)
        \/ ReadVideoWeight(t)
        \/ WriteVideoWeight(t)
        \/ ReadNewVideoWeight(t)
        \/ WriteAudioWeight(t)
        \/ AppendHistory(t)

ConcSpec == ConcInit /\ [][ConcNext]_vars

----------------------------------------------------------------------------
(* The stateless fusion strategies (deepFake/fusion/fusion_strategy.py).   *)
(* A strategy object is a record of its class and constructor parameters.  *)

\* None as the value of a metadata key
NoValue == "None"

\* the 0.5 a modality's fake_probability must exceed to be flagged fake
FlagThreshold == 5000

\* the fixed blend of SecurityFirstFusionStrategy when the flags agree
AgreeVideoWeight == 7000

AgreeAudioWeight == 3000

\* the disagreement above which an unalarmed split is LOW_CONFIDENCE
LowConfidenceGap == 2000

\* the test of CASE 1 with '>=' in place of '>'
mismatch_detected_at_threshold(mismatch_threshold, video_fake, audio_fake) ==
    /\ (video_fake > FlagThreshold) # (audio_fake > FlagThreshold)
    /\ Abs(video_fake - audio_fake) >= mismatch_threshold

\* CASE 1: video_is_fake != audio_is_fake and disagreement > mismatch_threshold
mismatch_detected(mismatch_threshold, video_fake, audio_fake) ==
    /\ (video_fake > FlagThreshold) # (audio_fake > FlagThreshold)
    /\ Abs(video_fake - audio_fake) > mismatch_threshold

\* security_alert without the LOW_CONFIDENCE of CASE 4
security_alert_of_no_low(mismatch_threshold, video_fake, audio_fake) ==
    IF mismatch_detected(mismatch_threshold, video_fake, audio_fake)
    THEN "MISMATCH_DETECTED"
    ELSE NoValue

\* security_alert when fuse returns
security_alert_of(mismatch_threshold, video_fake, audio_fake) ==
    LET video_is_fake == video_fake > FlagThreshold
        audio_is_fake == audio_fake > FlagThreshold
        disagreement == Abs(video_fake - audio_fake)
    IN  IF mismatch_detected(mismatch_threshold, video_fake, audio_fake)
        THEN "MISMATCH_DETECTED"
        ELSE IF video_is_fake /\ audio_is_fake THEN NoValue
        ELSE IF ~video_is_fake /\ ~audio_is_fake THEN NoValue
        ELSE IF disagreement > LowConfidenceGap THEN "LOW_CONFIDENCE"
        ELSE NoValue

\* threat_vector when fuse returns
threat_vector_of(mismatch_threshold, video_fake, audio_fake) ==
    LET video_is_fake == video_fake > FlagThreshold
        audio_is_fake == audio_fake > FlagThreshold
    IN  IF mismatch_detected(mismatch_threshold, video_fake, audio_fake)
        THEN IF video_is_fake /\ ~audio_is_fake
             THEN "FACE_SWAP_ATTACK"
             ELSE "VOICE_CLONE_ATTACK"
        ELSE IF video_is_fake /\ audio_is_fake THEN "FULL_DEEPFAKE"
        ELSE NoValue

\* the 0.7/0.3 blend on every path
security_fused_fake_always_blend(mismatch_threshold, video_fake, audio_fake) ==
    Mul(AgreeVideoWeight, video_fake) + Mul(AgreeAudioWeight, audio_fake)

\* the conservative maximum on every path
security_fused_fake_always_max(mismatch_threshold, video_fake, audio_fake) ==
    Max(video_fake, audio_fake)

\* fused_fake: the maximum in CASE 1 and CASE 4, the 0.7/0.3 blend in CASE 2
\* and CASE 3
security_fused_fake(mismatch_threshold, video_fake, audio_fake) ==
    LET video_is_fake == video_fake > FlagThreshold
        audio_is_fake == audio_fake > FlagThreshold
    IN  IF mismatch_detected(mismatch_threshold, video_fake, audio_fake)
        THEN Max(video_fake, audio_fake)
        ELSE IF video_is_fake /\ audio_is_fake
        THEN Mul(AgreeVideoWeight, video_fake) + Mul(AgreeAudioWeight, audio_fake)
        ELSE IF ~video_is_fake /\ ~audio_is_fake
        THEN Mul(AgreeVideoWeight, video_fake) + Mul(AgreeAudioWeight, audio_fake)
        ELSE Max(video_fake, audio_fake)

\* SecurityFirstFusionStrategy.fuse
security_first_fuse(mismatch_threshold, video_result, audio_result) ==
    IF NoValidAudio(audio_result)
    THEN DetectionResult(video_result.fake_probability,
                         video_result.real_probability,
                         [fusion_type |-> "video_only",
                          video_result |-> to_dict(video_result),
                          security_alert |-> NoValue])
    ELSE LET video_fake == video_result.fake_probability
             audio_fake == audio_result.fake_probability
             fused_fake == security_fused_fake(mismatch_threshold, video_fake, audio_fake)
             fused_real == One - fused_fake
         IN  DetectionResult(fused_fake, fused_real,
                         [fusion_type |-> "security_first",
                          security_alert |->
                              security_alert_of(mismatch_threshold, video_fake, audio_fake),
                          threat_vector |->
                              threat_vector_of(mismatch_threshold, video_fake, audio_fake),
                          disagreement |-> Abs(video_fake - audio_fake),
                          video_result |-> to_dict(video_result),
                          audio_result |-> to_dict(audio_result)])

\* WeightedFusionStrategy.fuse with self.video_weight = vw, self.audio_weight = aw
weighted_fuse(vw, aw, video_result, audio_result) ==
    IF NoValidAudio(audio_result)
    THEN DetectionResult(video_result.fake_probability,
                         video_result.real_probability,
                         [fusion_type |-> "video_only",
                          video_result |-> to_dict(video_result)])
    ELSE LET fused_fake == Mul(vw, video_result.fake_probability)
                           + Mul(aw, audio_result.fake_probability)
             fused_real == One - fused_fake
         IN  DetectionResult(fused_fake, fused_real,
                         [fusion_type |-> "weighted",
                          video_weight |-> vw,
                          audio_weight |-> aw,
                          video_result |-> to_dict(video_result),
                          audio_result |-> to_dict(audio_result)])

\* MaxFusionStrategy.fuse: without valid audio it returns video_result itself
max_fuse(video_result, audio_result) ==
    IF NoValidAudio(audio_result)
    THEN video_result
    ELSE LET fused_fake == Max(video_result.fake_probability,
                               audio_result.fake_probability)
             fused_real == One - fused_fake
         IN  DetectionResult(fused_fake, fused_real,
                         [fusion_type |-> "max",
                          video_result |-> to_dict(video_result),
                          audio_result |-> to_dict(audio_result)])

\* DetectionResult.confidence
confidence(r) == Max(r.fake_probability, r.real_probability)

\* the confidence share scaled so that equal confidences give base_video_weight
adaptive_video_weight_base_at_equal(base_video_weight, video_conf, audio_conf) ==
    LET total_conf == video_conf + audio_conf
    IN  IF total_conf > 0
        THEN Min(One, (2 * video_conf * base_video_weight) \div total_conf)
        ELSE base_video_weight

\* video_weight of AdaptiveFusionStrategy.fuse:
\* (video_conf / total_conf) * base_video_weight + (1 - base_video_weight) * 0.5,
\* the quotient rounded down to 1/One
adaptive_video_weight(base_video_weight, video_conf, audio_conf) ==
    LET total_conf == video_conf + audio_conf
    IN  IF total_conf > 0
        THEN (video_conf * base_video_weight) \div total_conf
             + Mul(One - base_video_weight, One \div 2)
        ELSE base_video_weight

\* AdaptiveFusionStrategy.fuse: without valid audio it returns video_result itself
adaptive_fuse(base_video_weight, video_result, audio_result) ==
    IF NoValidAudio(audio_result)
    THEN video_result
    ELSE LET video_conf == confidence(video_result)
             audio_conf == confidence(audio_result)
             vw == adaptive_video_weight(base_video_weight, video_conf, audio_conf)
             aw == One - vw
             fused_fake == Mul(vw, video_result.fake_probability)
                           + Mul(aw, audio_result.fake_probability)
             fused_real == One - fused_fake
         IN  DetectionResult(fused_fake, fused_real,
                         [fusion_type |-> "adaptive",
                          video_weight |-> vw,
                          audio_weight |-> aw,
                          video_confidence |-> video_conf,
                          audio_confidence |-> audio_conf,
                          video_result |-> to_dict(video_result),
                          audio_result |-> to_dict(audio_result)])

\* the strategies DeepFakeDetector.__init__ builds, one per FUSION_MODE
SecurityFirst(mismatch_threshold) ==
    [class |-> "SecurityFirstFusionStrategy", mismatch_threshold |-> mismatch_threshold]

Weighted(vw, aw) ==
    [class |-> "WeightedFusionStrategy", video_weight |-> vw, audio_weight |-> aw]

MaxFusion == [class |-> "MaxFusionStrategy"]

Adaptive(base_video_weight) ==
    [class |-> "AdaptiveFusionStrategy", base_video_weight |-> base_video_weight]

\* self.fusion_strategy.fuse(video_result, audio_result): the result of the
\* strategy's own fuse
strategy_fuse(strategy, video_result, audio_result) ==
    CASE strategy.class = "SecurityFirstFusionStrategy" ->
            security_first_fuse(strategy.mismatch_threshold, video_result, audio_result)
      [] strategy.class = "WeightedFusionStrategy" ->
            weighted_fuse(strategy.video_weight, strategy.audio_weight,
                          video_result, audio_result)
      [] strategy.class = "MaxFusionStrategy" ->
            max_fuse(video_result, audio_result)
      [] strategy.class = "AdaptiveFusionStrategy" ->
            adaptive_fuse(strategy.base_video_weight, video_result, audio_result)
      [] strategy.class = "RLAdaptiveFusion" ->
            rl_fuse(video_weight, audio_weight, video_result, audio_result)

\* a fuse call that returned, with the arguments it was given
Fused(video_result, audio_result, ret) ==
    [op |-> "fuse", raised |-> FALSE, ret |-> ret,
     video_result |-> video_result, audio_result |-> audio_result]

\* DeepFakeDetector.analyze_video, the fusion step: no strategy's fuse
\* assigns an attribute or writes a file
detector_fuse(video_result, audio_result) ==
    /\ last' = Fused(video_result, audio_result,
                     strategy_fuse(fusion_strategy, video_result, audio_result))
    /\ UNCHANGED <<video_weight, audio_weight, learning_rate, rewards,
                   weight_history, feedback_data, rl_weights, fusion_strategy,
                   threads,
                   last_prediction>>

----------------------------------------------------------------------------
(* One detector, built with any of the five strategies, fusing any pair of *)
(* detector outputs.                                                       *)

\* fake_probability of the video and of the audio detector's result: both
\* sides of 0.5, 0.5 itself, and pairs at every distance the thresholds cut
VideoFakes == {1500, 4000, 5000, 6000, 8000, 8500}

AudioFakes == {1500, 3000, 4000, 5000, 6000, 8000}

FusedVideoResults ==
    { DetectionResult(f, One - f, [source |-> "local"]) : f \in VideoFakes }

FusedAudioResults ==
    {AudioNone}
    \cup { DetectionResult(f, One - f, [source |-> "local"]) : f \in AudioFakes }
    \cup { DetectionResult(f, One - f, [error |-> "audio failed"]) : f \in {1500, 9000} }

\* mismatch_threshold: 0.3 is the default and Config.MISMATCH_THRESHOLD
MismatchThresholds == {1000, 3000, 6000}

\* base_video_weight: 0.7 is the default
BaseVideoWeights == {7000, 9000}

Strategies ==
    { SecurityFirst(t) : t \in MismatchThresholds }
    \cup { Weighted(7000, 3000), Weighted(9000, 1000) }
    \cup { MaxFusion }
    \cup { Adaptive(b) : b \in BaseVideoWeights }
    \cup { RLAdaptive }

FuseInit ==
    /\ fusion_strategy \in Strategies
    /\ IF fusion_strategy = RLAdaptive
       THEN video_weight \in AnyVideoWeights
       ELSE video_weight = DefaultVideoWeight
    /\ audio_weight = One - video_weight
    /\ learning_rate = DefaultLearningRate
    /\ rewards = <<>>
    /\ weight_history = <<>>
    /\ feedback_data = ensure_file_exists(NoFile)
    /\ rl_weights = NoFile
    /\ last = Returned("init", NoReturn)
    /\ last_prediction = NoPrediction
    /\ pc = [t \in Threads |-> "idle"]
    /\ frame = [t \in Threads |-> IdleFrame]

FuseNext ==
    \E v \in FusedVideoResults, a \in FusedAudioResults : detector_fuse(v, a)

FuseSpec == FuseInit /\ [][FuseNext]_vars

----------------------------------------------------------------------------
(* Startup on whatever rl_weights.json holds: the file is written with     *)
(* open(filepath, 'w') and can be edited or left half-written outside the  *)
(* program.                                                                *)

\* what load_model can find on disk: no file, text that does not parse, an
\* object lacking either or both keys, and saved pairs
WeightFilesOnDisk ==
    { NoFile,
      MalformedFile,
      [exists |-> TRUE],
      [exists |-> TRUE, video_weight |-> 6000],
      [exists |-> TRUE, audio_weight |-> 4000],
      WeightFile(6000, 4000),
      WeightFile(7500, 2500) }

LoadInit ==
    /\ \E w \in InitialVideoWeights :
          /\ video_weight = w
          /\ audio_weight = One - w
    /\ learning_rate \in LearningRates
    /\ rewards = <<>>
    /\ weight_history = <<>>
    /\ feedback_data = ensure_file_exists(NoFile)
    /\ rl_weights \in WeightFilesOnDisk
    /\ fusion_strategy = RLAdaptive
    /\ last = Returned("init", NoReturn)
    /\ last_prediction = NoPrediction
    /\ pc = [t \in Threads |-> "idle"]
    /\ frame = [t \in Threads |-> IdleFrame]

LoadNext ==
    \/ Construct
    \/ load_model
    \/ save_model

LoadSpec == LoadInit /\ [][LoadNext]_vars

----------------------------------------------------------------------------
(* One instance on an initially empty log: feedback calls and get_stats.   *)

\* FeedbackDatabase.get_stats: f['prediction']['verdict'] raises KeyError on
\* an entry whose prediction has no verdict
get_stats ==
    /\ IF \E i \in 1..Len(feedback_data.lines) :
             "verdict" \notin DOMAIN feedback_data.lines[i].prediction
       THEN last' = Raised("get_stats", "KeyError")
       ELSE last' = Returned("get_stats", feedback_stats(feedback_data))
    /\ UNCHANGED <<video_weight, audio_weight, learning_rate, rewards,
                   weight_history, feedback_data, rl_weights, fusion_strategy,
                   threads,
                   last_prediction>>

StatsNext ==
    \/ UpdateFromFeedback
    \/ get_stats

StatsSpec == Init /\ [][StatsNext]_vars

----------------------------------------------------------------------------
(* get_performance_stats on a long feedback history.                       *)

\* rewards[-100:] and rewards[-20:]
AvgRewardWindow == 100

RecentWindow == 20

RECURSIVE Sum(_)
\* sum of a sequence of numbers
Sum(s) == IF s = <<>> THEN 0 ELSE Head(s) + Sum(Tail(s))

\* np.mean of a non-empty sequence, rounded down to 1/One
mean(s) == Sum(s) \div Len(s)

\* the first n elements, s[:n]
last_n_from_start(s, n) == SubSeq(s, 1, Min(n, Len(s)))

\* the last n elements, s[-n:]
last_n(s, n) == SubSeq(s, Max(1, Len(s) - n + 1), Len(s))

\* the dict get_performance_stats returns: avg_reward and recent_accuracy are
\* set only when self.rewards is not empty, and recent_accuracy is None below
\* 20 rewards
performance_stats(file, rs, vw, aw) ==
    LET stats == feedback_stats(file)
        current_weights == [video |-> vw, audio |-> aw]
        recent == last_n(rs, RecentWindow)
    IN  IF rs # <<>>
        THEN [total |-> stats.total,
              accuracy |-> stats.accuracy,
              correct |-> stats.correct,
              incorrect |-> stats.incorrect,
              avg_reward |-> mean(last_n(rs, AvgRewardWindow)),
              recent_accuracy |->
                  IF Len(rs) >= RecentWindow
                  THEN mean([i \in 1..Len(recent) |-> IF recent[i] > 0 THEN One ELSE 0])
                  ELSE NoneVal,
              current_weights |-> current_weights]
        ELSE [total |-> stats.total,
              accuracy |-> stats.accuracy,
              correct |-> stats.correct,
              incorrect |-> stats.incorrect,
              current_weights |-> current_weights]

\* RLAdaptiveFusion.get_performance_stats; get_stats raises KeyError on an
\* entry whose prediction has no verdict
get_performance_stats ==
    /\ IF \E i \in 1..Len(feedback_data.lines) :
             "verdict" \notin DOMAIN feedback_data.lines[i].prediction
       THEN last' = Raised("get_performance_stats", "KeyError")
       ELSE last' = Returned("get_performance_stats",
                             performance_stats(feedback_data, rewards,
                                               video_weight, audio_weight))
    /\ UNCHANGED <<video_weight, audio_weight, learning_rate, rewards,
                   weight_history, feedback_data, rl_weights, fusion_strategy,
                   last_prediction, threads>>

\* feedback calls in a run of PerfSpec: enough to fill the window of 100
MaxRewards == 101

\* A user who agrees with the verdicts for a while (at most once with the
\* confidence slider at 0) and disagrees from then on
AgreeingFeedback == <<Prediction("FAKE", 8500, 1500), "FAKE", 10000>>

UnsureAgreeingFeedback == <<Prediction("FAKE", 8500, 1500), "FAKE", 0>>

DisagreeingFeedback == <<[verdict |-> "REAL", video_fake_score |-> 2000], "FAKE", 8000>>

PerfUpdate ==
    /\ Len(rewards) < MaxRewards
    /\ \E f \in {AgreeingFeedback, UnsureAgreeingFeedback, DisagreeingFeedback} :
          /\ f # DisagreeingFeedback => \A i \in 1..Len(rewards) : rewards[i] > 0
          /\ update_from_feedback(f[1], f[2], f[3])

PerfNext ==
    \/ PerfUpdate
    \/ get_performance_stats

PerfSpec == ConcInit /\ [][PerfNext]_vars

----------------------------------------------------------------------------
(* update_from_feedback called directly with any user_confidence: the      *)
(* parameter is a float and only the slider of main.py keeps it in [0,1].  *)

\* user_confidence below, inside and above [0,1]
WideUserConfidences == {-5000, 0, 8000, 10000, 15000}

\* predictions with both scores
ScoredPredictions ==
    { Prediction(v, s[1], s[2]) :
        v \in {"REAL", "FAKE"}, s \in {<<2000, 7000>>, <<8500, 1500>>} }

ConfidenceNext ==
    /\ Len(feedback_data.lines) < MaxUpdates
    /\ \E p \in ScoredPredictions, l \in Labels, c \in WideUserConfidences :
          update_from_feedback(p, l, c)

ConfidenceSpec == UpdateInit /\ [][ConfidenceNext]_vars

----------------------------------------------------------------------------
(* Startup: DeepFakeDetector() validates Config and builds the strategy of *)
(* Config.FUSION_MODE.                                                     *)

\* the attributes of Config that startup reads
Config(video_weight_, audio_weight_, fake_threshold, fusion_mode, mismatch_threshold) ==
    [VIDEO_WEIGHT |-> video_weight_,
     AUDIO_WEIGHT |-> audio_weight_,
     FAKE_THRESHOLD |-> fake_threshold,
     FUSION_MODE |-> fusion_mode,
     MISMATCH_THRESHOLD |-> mismatch_threshold,
     RL_LEARNING_RATE |-> DefaultLearningRate]

\* the modes Config.validate accepts
FusionModes ==
    {"security_first", "weighted", "max", "adaptive", "rl_adaptive", "advanced_rl"}

\* the 0.001 within which the two weights must sum to 1, in units of 1/One
WeightSumTolerance == 10

\* Config.validate: its three assertions
validate(cfg) ==
    /\ Abs(cfg.VIDEO_WEIGHT + cfg.AUDIO_WEIGHT - One) < WeightSumTolerance
    /\ 0 < cfg.FAKE_THRESHOLD
    /\ cfg.FAKE_THRESHOLD < One
    /\ cfg.FUSION_MODE \in FusionModes

\* no detector has been built
NoStrategy == [class |-> "None"]

\* DeepFakeDetector() has returned or raised, under the given Config
Started(cfg, raised, ret) ==
    [op |-> "DeepFakeDetector", raised |-> raised, ret |-> ret, config |-> cfg]

\* AdaptiveFusionStrategy(): base_video_weight defaults to 0.7
DefaultBaseVideoWeight == 7000

\* the stateless strategy __init__ builds for a mode other than the RL ones
stateless_strategy(cfg) ==
    CASE cfg.FUSION_MODE = "security_first" -> SecurityFirst(cfg.MISMATCH_THRESHOLD)
      [] cfg.FUSION_MODE = "weighted" -> Weighted(cfg.VIDEO_WEIGHT, cfg.AUDIO_WEIGHT)
      [] cfg.FUSION_MODE = "max" -> MaxFusion
      [] cfg.FUSION_MODE = "adaptive" -> Adaptive(DefaultBaseVideoWeight)

\* DeepFakeDetector.__init__ with fusion_strategy = None under Config cfg
DeepFakeDetector_init(cfg) ==
    IF ~validate(cfg)
    THEN \* an assert of Config.validate fails
         /\ last' = Started(cfg, TRUE, [error |-> "AssertionError"])
         /\ UNCHANGED <<video_weight, audio_weight, learning_rate, rewards,
                        weight_history, feedback_data, rl_weights,
                        fusion_strategy, last_prediction, threads>>
    ELSE IF cfg.FUSION_MODE = "advanced_rl"
    THEN \* no branch of __init__ builds it: 'Unknown fusion mode'
         /\ last' = Started(cfg, TRUE, [error |-> "ValueError"])
         /\ UNCHANGED <<video_weight, audio_weight, learning_rate, rewards,
                        weight_history, feedback_data, rl_weights,
                        fusion_strategy, last_prediction, threads>>
    ELSE IF cfg.FUSION_MODE = "rl_adaptive"
    THEN \* RLAdaptiveFusion(Config.VIDEO_WEIGHT, Config.RL_LEARNING_RATE),
         \* then load_model() (Config.RL_LOAD_PREVIOUS)
         /\ learning_rate' = cfg.RL_LEARNING_RATE
         /\ feedback_data' = ensure_file_exists(feedback_data)
         /\ rewards' = <<>>
         /\ weight_history' = <<>>
         /\ IF ~rl_weights.exists
            THEN /\ video_weight' = cfg.VIDEO_WEIGHT
                 /\ audio_weight' = One - cfg.VIDEO_WEIGHT
                 /\ fusion_strategy' = RLAdaptive
                 /\ last' = Started(cfg, FALSE, NoReturn)
            ELSE IF "malformed" \in DOMAIN rl_weights
                    \/ "video_weight" \notin DOMAIN rl_weights
                    \/ "audio_weight" \notin DOMAIN rl_weights
            THEN \* load_model raises out of __init__: no detector is built
                 /\ video_weight' = cfg.VIDEO_WEIGHT
                 /\ audio_weight' = One - cfg.VIDEO_WEIGHT
                 /\ fusion_strategy' = NoStrategy
                 /\ last' = Started(cfg, TRUE, [error |-> "load_model"])
            ELSE /\ video_weight' = rl_weights.video_weight
                 /\ audio_weight' = rl_weights.audio_weight
                 /\ fusion_strategy' = RLAdaptive
                 /\ last' = Started(cfg, FALSE, NoReturn)
         /\ UNCHANGED <<rl_weights, last_prediction, threads>>
    ELSE /\ fusion_strategy' = stateless_strategy(cfg)
         /\ last' = Started(cfg, FALSE, NoReturn)
         /\ UNCHANGED <<video_weight, audio_weight, learning_rate, rewards,
                        weight_history, feedback_data, rl_weights,
                        last_prediction, threads>>

\* Config values an operator can set: weights that do and do not sum to 1,
\* FAKE_THRESHOLD on and inside its bounds, every accepted mode and an
\* unknown one, MISMATCH_THRESHOLD below, on, inside and above (0,1)
Configs ==
    { Config(vw, aw, ft, mode, mt) :
        vw \in {9000}, aw \in {1000, 3000}, ft \in {0, 5000},
        mode \in FusionModes \cup {"average"},
        mt \in {-2000, 0, 3000, 10000, 15000} }

StartupInit ==
    /\ video_weight = DefaultVideoWeight
    /\ audio_weight = One - DefaultVideoWeight
    /\ learning_rate = DefaultLearningRate
    /\ rewards = <<>>
    /\ weight_history = <<>>
    /\ feedback_data = NoFile
    /\ rl_weights \in {NoFile, WeightFile(6000, 4000), MalformedFile}
    /\ fusion_strategy = NoStrategy
    /\ last = Returned("init", NoReturn)
    /\ last_prediction = NoPrediction
    /\ pc = [t \in Threads |-> "idle"]
    /\ frame = [t \in Threads |-> IdleFrame]

StartupNext ==
    \E cfg \in Configs : DeepFakeDetector_init(cfg)

StartupSpec == StartupInit /\ [][StartupNext]_vars

----------------------------------------------------------------------------
(* DetectionResults built from any numbers, fused under any weights.       *)

\* numbers a detector or a caller can pass as a probability: below 0, the
\* ends of [0,1], inside it, above 1
RawProbabilities == {-2000, 0, 4000, 10000, 13000}

RawVideoResults ==
    { DetectionResult(f, r, [source |-> "local"]) :
        f \in RawProbabilities, r \in RawProbabilities }

RawAudioResults ==
    {AudioNone}
    \cup { DetectionResult(f, r, [source |-> "local"]) :
             f \in RawProbabilities, r \in RawProbabilities }
    \cup { DetectionResult(5000, 5000, [error |-> "audio failed"]) }

\* weights that pass the sum-to-1 assertions without lying in [0,1]
OutOfRangeVideoWeight == 12000

\* DetectionResult(fake_probability, real_probability) has returned
Constructed(fake_probability, real_probability, ret) ==
    [op |-> "DetectionResult", raised |-> FALSE, ret |-> ret,
     fake_probability |-> fake_probability, real_probability |-> real_probability]

\* a detector builds its result from the scores of its model
construct_result(fake_probability, real_probability) ==
    /\ last' = Constructed(fake_probability, real_probability,
                   DetectionResult(fake_probability, real_probability,
                                   [source |-> "local"]))
    /\ UNCHANGED <<video_weight, audio_weight, learning_rate, rewards,
                   weight_history, feedback_data, rl_weights, fusion_strategy,
                   last_prediction, threads>>

ProbInit ==
    /\ fusion_strategy \in
          Strategies \cup {Weighted(OutOfRangeVideoWeight, One - OutOfRangeVideoWeight)}
    /\ IF fusion_strategy = RLAdaptive
       THEN video_weight \in AnyVideoWeights \cup {OutOfRangeVideoWeight}
       ELSE video_weight = DefaultVideoWeight
    /\ audio_weight = One - video_weight
    /\ learning_rate = DefaultLearningRate
    /\ rewards = <<>>
    /\ weight_history = <<>>
    /\ feedback_data = ensure_file_exists(NoFile)
    /\ rl_weights = NoFile
    /\ last = Returned("init", NoReturn)
    /\ last_prediction = NoPrediction
    /\ pc = [t \in Threads |-> "idle"]
    /\ frame = [t \in Threads |-> IdleFrame]

ProbConstruct ==
    \E f \in RawProbabilities, r \in RawProbabilities : construct_result(f, r)

ProbFuse ==
    \E v \in RawVideoResults, a \in RawAudioResults : detector_fuse(v, a)

ProbNext ==
    \/ ProbConstruct
    \/ ProbFuse

ProbSpec == ProbInit /\ [][ProbNext]_vars

----------------------------------------------------------------------------
(* The Gradio handlers of main.py on the one module-level detector: every  *)
(* browser session calls the same functions and shares last_prediction.    *)
(* frame[t] holds what session t has on its page: the response it was      *)
(* shown last and how many feedbacks it has submitted since.               *)

\* None as the value of audio_metadata
NoMetadata == [is_none |-> TRUE]

\* _format_response without the override of the verdict by a mismatch alert
format_response_no_override(fused_result, video_result, audio_result) ==
    [verdict |-> IF fused_result.fake_probability > fused_result.real_probability
                 THEN "FAKE" ELSE "REAL",
     fake_probability |-> fused_result.fake_probability,
     real_probability |-> fused_result.real_probability,
     video_fake_score |-> video_result.fake_probability,
     audio_fake_score |-> IF "is_none" \in DOMAIN audio_result
                          THEN NoneVal
                          ELSE audio_result.fake_probability,
     security_alert |-> IF "security_alert" \in DOMAIN fused_result.metadata
                        THEN fused_result.metadata.security_alert
                        ELSE NoValue,
     threat_vector |-> IF "threat_vector" \in DOMAIN fused_result.metadata
                       THEN fused_result.metadata.threat_vector
                       ELSE NoValue,
     details |-> [fusion_metadata |-> fused_result.metadata,
                  audio_metadata |-> IF "is_none" \in DOMAIN audio_result
                                     THEN NoMetadata
                                     ELSE audio_result.metadata]]

\* _format_response: the fields of the response that grading and the page use
format_response(fused_result, video_result, audio_result) ==
    LET security_alert == IF "security_alert" \in DOMAIN fused_result.metadata
                          THEN fused_result.metadata.security_alert
                          ELSE NoValue
        threat_vector == IF "threat_vector" \in DOMAIN fused_result.metadata
                         THEN fused_result.metadata.threat_vector
                         ELSE NoValue
        is_fake == fused_result.fake_probability > fused_result.real_probability
    IN  [verdict |-> IF security_alert = "MISMATCH_DETECTED" THEN "SUSPICIOUS"
                     ELSE IF is_fake THEN "FAKE" ELSE "REAL",
         fake_probability |-> fused_result.fake_probability,
         real_probability |-> fused_result.real_probability,
         video_fake_score |-> video_result.fake_probability,
         \* 'if audio_result': any DetectionResult object is truthy, an
         \* error-marked one included
         audio_fake_score |-> IF "is_none" \in DOMAIN audio_result
                              THEN NoneVal
                              ELSE audio_result.fake_probability,
         security_alert |-> security_alert,
         threat_vector |-> threat_vector,
         details |-> [fusion_metadata |-> fused_result.metadata,
                      audio_metadata |-> IF "is_none" \in DOMAIN audio_result
                                         THEN NoMetadata
                                         ELSE audio_result.metadata]]

\* _error_response
error_response ==
    [verdict |-> "ERROR",
     fake_probability |-> 5000,
     real_probability |-> 5000,
     video_fake_score |-> 5000,
     audio_fake_score |-> NoneVal,
     security_alert |-> NoValue,
     threat_vector |-> NoValue,
     details |-> [fusion_metadata |-> NoMetadata, audio_metadata |-> NoMetadata]]

\* what the detectors make of an uploaded video: a video result with an
\* audio result (or none), or a failure before fusion
Analysis(video_result, audio_result) ==
    [video_result |-> video_result, audio_result |-> audio_result]

FailedAnalysis == [fails |-> TRUE]

\* DeepFakeDetector.analyze_video: fuse and format, or the error response
analyze_video(analysis) ==
    IF "fails" \in DOMAIN analysis
    THEN error_response
    ELSE format_response(strategy_fuse(fusion_strategy, analysis.video_result,
                                       analysis.audio_result),
                         analysis.video_result, analysis.audio_result)

\* what a session has on its page
Page(shown, submitted) == [op |-> "idle", shown |-> shown, submitted |-> submitted]

\* a handler has returned to session t
Handled(op, t, prediction, ret) ==
    [op |-> op, raised |-> FALSE, ret |-> ret, session |-> t, prediction |-> prediction]

\* analyze_video_mode has returned its report on an upload to session t
Analyzed(t, analysis, results) ==
    [op |-> "analyze_video_mode", raised |-> FALSE,
     ret |-> [verdict |-> IF "verdict" \in DOMAIN results
                          THEN results.verdict ELSE "ERROR"],
     session |-> t, prediction |-> results, analysis |-> analysis]

\* video_path is None: nothing was uploaded
NoUpload == [is_none |-> TRUE]

\* analyze_video_mode: without an upload an error message and nothing else;
\* otherwise store the response for feedback and show it
analyze_video_mode(t, analysis) ==
    IF "is_none" \in DOMAIN analysis
    THEN /\ last' = [Analyzed(t, analysis, NoPrediction) EXCEPT
                        !.ret = [verdict |-> "ERROR"]]
         /\ UNCHANGED <<video_weight, audio_weight, learning_rate, rewards,
                        weight_history, feedback_data, rl_weights,
                        fusion_strategy, last_prediction, threads>>
    ELSE LET results == analyze_video(analysis)
         IN  /\ last_prediction' = results
             /\ frame' = [frame EXCEPT ![t] = Page(results, 0)]
             /\ last' = Analyzed(t, analysis, results)
             /\ UNCHANGED <<video_weight, audio_weight, learning_rate, rewards,
                            weight_history, feedback_data, rl_weights,
                            fusion_strategy, pc>>

\* feedback submitted from a page: one more since the page was shown
submitted_from(page) ==
    IF "shown" \in DOMAIN page
    THEN Page(page.shown, page.submitted + 1)
    ELSE Page(NoPrediction, 1)

\* confidence_slider / 100.0, the slider running from 0 to 100
slider_confidence(confidence_slider) == confidence_slider * (One \div 100)

\* submit_video_feedback: grade last_prediction["video"], then save_model
\* and get_performance_stats; last_prediction is left as it is
submit_video_feedback(t, feedback_label, confidence_slider) ==
    LET prediction == last_prediction
        user_confidence == slider_confidence(confidence_slider)
    IN  IF "is_none" \in DOMAIN last_prediction
        THEN /\ last' = Handled("submit_video_feedback", t, NoPrediction,
                                [message |-> "No prediction to provide feedback for"])
             /\ UNCHANGED <<video_weight, audio_weight, learning_rate, rewards,
                            weight_history, feedback_data, rl_weights,
                            fusion_strategy, last_prediction, threads>>
        ELSE IF fusion_strategy # RLAdaptive
        THEN /\ last' = Handled("submit_video_feedback", t, prediction,
                                [message |-> "RL mode not enabled"])
             /\ UNCHANGED <<video_weight, audio_weight, learning_rate, rewards,
                            weight_history, feedback_data, rl_weights,
                            fusion_strategy, last_prediction, threads>>
        ELSE \* update_from_feedback on a response of analyze_video: 'verdict'
             \* and a numeric video_fake_score are always there
             /\ feedback_data' = add_feedback(feedback_data, prediction,
                                              feedback_label, user_confidence)
             /\ rewards' = Append(rewards, reward_of(prediction, feedback_label,
                                                     user_confidence))
             /\ IF qualifies(prediction, feedback_label)
                THEN /\ video_weight' = new_video_weight(video_weight, learning_rate,
                                            prediction, feedback_label, user_confidence)
                     /\ audio_weight' = new_audio_weight(video_weight')
                     /\ weight_history' = Append(weight_history,
                            [video_weight |-> video_weight',
                             audio_weight |-> audio_weight',
                             reward |-> reward_of(prediction, feedback_label,
                                                  user_confidence)])
                ELSE UNCHANGED <<video_weight, audio_weight, weight_history>>
             /\ rl_weights' = WeightFile(video_weight', audio_weight')
             /\ frame' = [frame EXCEPT ![t] = submitted_from(frame[t])]
             /\ last' = Handled("submit_video_feedback", t, prediction,
                                [total |-> Len(feedback_data'.lines),
                                 video |-> video_weight',
                                 audio |-> audio_weight'])
             /\ UNCHANGED <<learning_rate, fusion_strategy, last_prediction, pc>>

----------------------------------------------------------------------------
(* One session: analyse, then submit feedback on the response.             *)

\* feedbacks submitted in a run of AnalyzeSpec
MaxSubmits == 1

\* the uploads: video leaning real and video leaning fake, each without
\* audio, with audio whose detection failed (AudioDetector returns 0.5/0.5
\* with an 'error' key) and with audio of the opposite leaning
Uploads ==
    { Analysis(DetectionResult(f, One - f, [source |-> "local"]), a) :
        f \in {2000, 8500},
        a \in { AudioNone,
                DetectionResult(5000, 5000, [error |-> "Invalid audio path"]) } }
    \cup { Analysis(DetectionResult(8500, 1500, [source |-> "local"]),
                    DetectionResult(1500, 8500, [source |-> "local"])),
           Analysis(DetectionResult(2000, 8000, [source |-> "local"]),
                    DetectionResult(7000, 3000, [source |-> "local"])),
           FailedAnalysis, NoUpload }

AnalyzeInit ==
    /\ fusion_strategy \in
          { SecurityFirst(3000), Weighted(9000, 1000), MaxFusion,
            Adaptive(DefaultBaseVideoWeight), RLAdaptive }
    /\ video_weight = DefaultVideoWeight
    /\ audio_weight = One - DefaultVideoWeight
    /\ learning_rate = DefaultLearningRate
    /\ rewards = <<>>
    /\ weight_history = <<>>
    /\ feedback_data = ensure_file_exists(NoFile)
    /\ rl_weights = NoFile
    /\ last = Returned("init", NoReturn)
    /\ last_prediction = NoPrediction
    /\ pc = [t \in Threads |-> "idle"]
    /\ frame = [t \in Threads |-> IdleFrame]

AnalyzeVideo ==
    \E u \in Uploads : analyze_video_mode(1, u)

SubmitFeedback ==
    /\ Len(feedback_data.lines) < MaxSubmits
    \* the slider runs from 0 to 100 in steps of 5
    /\ \E l \in Labels, c \in {0, 80, 100} : submit_video_feedback(1, l, c)

AnalyzeNext ==
    \/ AnalyzeVideo
    \/ SubmitFeedback

AnalyzeSpec == AnalyzeInit /\ [][AnalyzeNext]_vars

----------------------------------------------------------------------------
(* Several browser sessions on the one process: Gradio runs each handler   *)
(* call to completion, and calls of different sessions interleave in any   *)
(* order.  The detector runs in rl_adaptive mode (Config.FUSION_MODE).     *)

\* feedbacks submitted in a run of SessionSpec
MaxSessionSubmits == 2

SessionInit ==
    /\ fusion_strategy = RLAdaptive
    /\ video_weight = DefaultVideoWeight
    /\ audio_weight = One - DefaultVideoWeight
    /\ learning_rate = DefaultLearningRate
    /\ rewards = <<>>
    /\ weight_history = <<>>
    /\ feedback_data = ensure_file_exists(NoFile)
    /\ rl_weights = NoFile
    /\ last = Returned("init", NoReturn)
    /\ last_prediction = NoPrediction
    /\ pc = [t \in Threads |-> "idle"]
    /\ frame = [t \in Threads |-> IdleFrame]

\* the sessions upload a fake-looking video with real-sounding audio or the
\* reverse
SessionAnalyze(t) ==
    \E u \in { Analysis(DetectionResult(8500, 1500, [source |-> "local"]),
                         DetectionResult(1500, 8500, [source |-> "local"])),
                Analysis(DetectionResult(2000, 8000, [source |-> "local"]),
                         DetectionResult(7000, 3000, [source |-> "local"])) } :
        analyze_video_mode(t, u)

\* a label, with the slider at its default 100
SessionSubmit(t) ==
    /\ Len(feedback_data.lines) < MaxSessionSubmits
    /\ \E l \in {"REAL", "FAKE"} : submit_video_feedback(t, l, 100)

SessionNext ==
    \E t \in Threads :
        \/ SessionAnalyze(t)
        \/ SessionSubmit(t)

SessionSpec == SessionInit /\ [][SessionNext]_vars

----------------------------------------------------------------------------
(* A run of feedbacks that all push the video weight the same way: every   *)
(* feedback grades the prediction incorrect, has both scores, and either   *)
(* all have audio_error <= video_error or all have video_error <           *)
(* audio_error.  The first feedback of the run sets its direction.         *)

\* feedbacks in a run of ConvSpec
MaxRun == 7

\* abs(video_score - user_fake_prob) and abs(audio_score - user_fake_prob)
video_error(prediction, user_label) ==
    Abs(prediction.video_fake_score
          - (IF user_label = "FAKE" \/ user_label = "SUSPICIOUS"
             THEN TargetFake ELSE TargetReal))

audio_error(prediction, user_label) ==
    Abs(prediction.audio_fake_score
          - (IF user_label = "FAKE" \/ user_label = "SUSPICIOUS"
             THEN TargetFake ELSE TargetReal))

\* the else branch of the update: audio was at least as accurate
lowers_video(prediction, user_label) ==
    ~(video_error(prediction, user_label) < audio_error(prediction, user_label))

ConvInit ==
    /\ fusion_strategy = RLAdaptive
    \* both clamp bounds and a value between them
    /\ video_weight \in {MinVideoWeight, 7200, MaxVideoWeight}
    /\ audio_weight = One - video_weight
    /\ learning_rate \in {1000, 3000}
    /\ rewards = <<>>
    /\ weight_history = <<>>
    /\ feedback_data = ensure_file_exists(NoFile)
    /\ rl_weights = NoFile
    /\ last = Returned("init", NoReturn)
    /\ last_prediction = NoPrediction
    /\ pc = [t \in Threads |-> "idle"]
    /\ frame = [t \in Threads |-> IdleFrame]

\* the next feedback of the run, in the direction of the first: an
\* incorrect-prediction feedback with both scores, one of two that lower the
\* video weight (one of them by a tie of the errors) or of two that raise
\* it, at full and at 0.8 confidence
ConvFeedback ==
    /\ Len(feedback_data.lines) < MaxRun
    /\ \E f \in { <<Prediction("REAL", 4000, 4000), "FAKE", One>>,
                  <<Prediction("FAKE", 8500, 1500), "REAL", 8000>>,
                  <<Prediction("FAKE", 7000, 2000), "SUSPICIOUS", One>>,
                  <<Prediction("REAL", 4500, 1000), "FAKE", 8000>> } :
          /\ Len(feedback_data.lines) > 0 =>
                lowers_video(f[1], f[2])
                  = lowers_video(feedback_data.lines[1].prediction,
                                 feedback_data.lines[1].user_label)
          /\ update_from_feedback(f[1], f[2], f[3])

ConvNext == ConvFeedback

\* update_from_feedback runs to completion on every feedback submitted, and
\* the run goes on while feedbacks are left in it
ConvSpec == ConvInit /\ [][ConvNext]_vars /\ WF_vars(ConvNext)

----------------------------------------------------------------------------
(* Properties                                                              *)

IsPrefix(s, t) == Len(s) <= Len(t) /\ SubSeq(t, 1, Len(s)) = s

\* both score keys are in the prediction and neither value is None
BothScoresPresent(p) ==
    /\ "video_fake_score" \in DOMAIN p
    /\ "audio_fake_score" \in DOMAIN p
    /\ p.video_fake_score # NoneVal
    /\ p.audio_fake_score # NoneVal

\* C1: between the calls of a single caller (construction, fuse,
\* update_from_feedback, save_model, load_model; rl_weights.json written only
\* by save_model), video_weight + audio_weight = 1.
C1_WeightsSumToOne == video_weight + audio_weight = One

\* load_model has replaced a pair this instance had learned by the saved one
C1_Witness ==
    /\ last = Returned("load_model", [value |-> TRUE])
    /\ weight_history # <<>>
    /\ video_weight # weight_history[Len(weight_history)].video_weight

\* C2: in every reachable state, also right after construction and right
\* after load_model, 0.5 <= video_weight <= 0.95 and audio_weight <= 0.5.
C2_WeightInRange ==
    /\ MinVideoWeight <= video_weight
    /\ video_weight <= MaxVideoWeight
    /\ audio_weight <= One - MinVideoWeight

\* the video weight the C3 rule prescribes
C3_Expected(vw, lr, p, l, c) ==
    LET target == IF l \in {"FAKE", "SUSPICIOUS"} THEN 7500 ELSE 2500
        closer == Abs(p.video_fake_score - target) < Abs(p.audio_fake_score - target)
        step == (lr * c) \div One
        moved == IF closer THEN vw + step ELSE vw - step
    IN  IF moved < 5000 THEN 5000 ELSE IF moved > 9500 THEN 9500 ELSE moved

\* C3: an update_from_feedback call on a wrong prediction with both scores
\* present sets video_weight to clamp(video_weight + learning_rate *
\* user_confidence, 0.5, 0.95) when the video score is strictly closer to the
\* label's target (0.75 for FAKE and SUSPICIOUS, 0.25 for REAL), and to
\* clamp(video_weight - learning_rate * user_confidence, 0.5, 0.95) otherwise,
\* a tie included; audio_weight becomes 1 - video_weight.  From 0.8 with rate
\* 0.05 and label REAL, scores (0.2, 0.7) give 0.85 and (0.85, 0.15) give 0.75.
C3_UpdateRule ==
    [][ /\ \A p \in Predictions, l \in Labels, c \in UserConfidences :
             (update_from_feedback(p, l, c) /\ p.verdict # l /\ BothScoresPresent(p))
                => /\ video_weight' = C3_Expected(video_weight, learning_rate, p, l, c)
                   /\ audio_weight' = One - video_weight'
        /\ (video_weight = 8000 /\ learning_rate = 500
              /\ update_from_feedback(Prediction("FAKE", 2000, 7000), "REAL", One))
                => video_weight' = 8500
        /\ (video_weight = 8000 /\ learning_rate = 500
              /\ update_from_feedback(Prediction("FAKE", 8500, 1500), "REAL", One))
                => video_weight' = 7500 ]_vars

\* a tie has lowered the video weight from 0.8 by 0.05 * 0.8
C3_Witness ==
    /\ feedback_data.lines =
          <<feedback_entry(Prediction("REAL", 5000, 5000), "FAKE", 8000)>>
    /\ learning_rate = 500
    /\ weight_history = <<[video_weight |-> 7600, audio_weight |-> 2400, reward |-> -8000]>>
    /\ video_weight = 7600

C5_ClampBoundary ==
    [][ Len(weight_history') > Len(weight_history)
           => /\ video_weight' >= 5000
              /\ video_weight' <= 9500 ]_vars

\* two decreases in a row, the second one held at the floor
C5_Witness ==
    /\ Len(weight_history) = 2
    /\ weight_history[1].video_weight = MinVideoWeight
    /\ weight_history[2].video_weight = MinVideoWeight
    /\ learning_rate > 0
    /\ video_weight = MinVideoWeight

\* the prediction lacks a score key, or its audio_fake_score is None
C6_MissingScores(p) ==
    \/ "video_fake_score" \notin DOMAIN p
    \/ "audio_fake_score" \notin DOMAIN p
    \/ p.audio_fake_score = NoneVal

\* C6: update_from_feedback on a wrong prediction that lacks
\* video_fake_score or audio_fake_score (key absent, or audio_fake_score
\* None) raises nothing, appends exactly one feedback entry, records one
\* reward and leaves both weights unchanged.
C6_MissingScoresRecordedNoOp ==
    [][ \A p \in Predictions, l \in Labels, c \in UserConfidences :
           (update_from_feedback(p, l, c) /\ p.verdict # l /\ C6_MissingScores(p))
              => /\ last' = Returned("update_from_feedback", NoReturn)
                 /\ feedback_data'.lines =
                       Append(feedback_data.lines, feedback_entry(p, l, c))
                 /\ rewards' = Append(rewards, -c)
                 /\ video_weight' = video_weight
                 /\ audio_weight' = audio_weight ]_vars

\* a wrong verdict without an audio score has been recorded
C6_Witness ==
    /\ Len(feedback_data.lines) = 1
    /\ LET e == feedback_data.lines[1] IN
          /\ e.prediction.verdict # e.user_label
          /\ "audio_fake_score" \in DOMAIN e.prediction
          /\ e.prediction.audio_fake_score = NoneVal
          /\ e.user_confidence > 0
          /\ rewards = <<-e.user_confidence>>
    /\ learning_rate > 0
    /\ weight_history = <<>>
    /\ last = Returned("update_from_feedback", NoReturn)

\* C7: feedback_data.jsonl only grows at its end: each update_from_feedback
\* appends exactly one entry, and no call (fuse, save_model with its
\* get_stats, load_model, or constructing a new instance on the existing
\* file) removes, reorders or rewrites an entry.
C7_LogAppendOnly ==
    [][ /\ feedback_data'.exists
        /\ IsPrefix(feedback_data.lines, feedback_data'.lines)
        /\ \A f \in Feedbacks :
              update_from_feedback(f[1], f[2], f[3])
                 => feedback_data'.lines =
                       Append(feedback_data.lines, feedback_entry(f[1], f[2], f[3])) ]_vars

\* a new instance has been constructed on a log that already has entries
C7_Witness ==
    /\ last = Returned("init", NoReturn)
    /\ Len(feedback_data.lines) >= 2
    /\ rewards = <<>>

\* C8: while fuse runs concurrently with update_from_feedback, the pair
\* (video_weight, audio_weight) a fuse call combines in its result sums to 1:
\* it is the pair from before or from after the update, never a torn one.
C8_NoTornRead ==
    \A t \in Threads :
        (pc[t] = "done" /\ frame[t].op = "fuse" /\ ~NoValidAudio(frame[t].audio_result))
           => frame[t].reads[1] + frame[t].reads[2] = One

\* thread t has completed an update_from_feedback call that moves the weights
C9_Updated(t) ==
    /\ pc[t] = "done"
    /\ frame[t].op = "update_from_feedback"
    /\ frame[t].prediction.verdict # frame[t].user_label
    /\ BothScoresPresent(frame[t].prediction)

\* the video weight after the call of thread t runs alone from vw
C9_Apply(vw, t) ==
    C3_Expected(vw, DefaultLearningRate, frame[t].prediction,
                frame[t].user_label, frame[t].user_confidence)

\* the entry of thread t's call is a line of the log
C9_Logged(t) ==
    \E i \in 1..Len(feedback_data.lines) :
        feedback_data.lines[i] = feedback_entry(frame[t].prediction,
                                    frame[t].user_label, frame[t].user_confidence)

\* C9: when two update_from_feedback calls that both qualify for a weight
\* change run concurrently, the final video_weight is the result of applying
\* both adjustments in one of the two serial orders, and both feedback
\* entries are in the log.
C9_NoLostUpdate ==
    \A t1, t2 \in Threads :
        (t1 # t2 /\ C9_Updated(t1) /\ C9_Updated(t2))
           => /\ video_weight \in
                    { C9_Apply(C9_Apply(DefaultVideoWeight, t1), t2),
                      C9_Apply(C9_Apply(DefaultVideoWeight, t2), t1) }
              /\ C9_Logged(t1)
              /\ C9_Logged(t2)
              /\ Len(feedback_data.lines) = 2

FusedBy(class) ==
    /\ last.op = "fuse"
    /\ "video_result" \in DOMAIN last
    /\ fusion_strategy.class = class

\* the audio_result of the last fuse call is a result without an 'error' key
AudioIsValid(a) ==
    /\ "is_none" \notin DOMAIN a
    /\ "error" \notin DOMAIN a.metadata

\* C11: for every valid audio result, SecurityFirstFusionStrategy.fuse sets
\* security_alert to MISMATCH_DETECTED exactly when the two flags
\* (fake_probability > 0.5) differ and |video.fake - audio.fake| exceeds
\* mismatch_threshold; it then names the fake side in threat_vector
\* (FACE_SWAP_ATTACK for video, VOICE_CLONE_ATTACK for audio) and returns the
\* larger of the two fake probabilities.
C11_MismatchAlert ==
    (FusedBy("SecurityFirstFusionStrategy") /\ AudioIsValid(last.audio_result)) =>
        LET v == last.video_result.fake_probability
            a == last.audio_result.fake_probability
            m == last.ret.metadata
            split == /\ (v > 5000) # (a > 5000)
                     /\ Abs(v - a) > fusion_strategy.mismatch_threshold
        IN  /\ (m.security_alert = "MISMATCH_DETECTED") <=> split
            /\ split =>
                  /\ (v > 5000) => m.threat_vector = "FACE_SWAP_ATTACK"
                  /\ (a > 5000) => m.threat_vector = "VOICE_CLONE_ATTACK"
                  /\ last.ret.fake_probability = Max(v, a)

\* video 0.85 and audio 0.15 at threshold 0.3: a face swap, fused fake 0.85
C11_Witness ==
    /\ FusedBy("SecurityFirstFusionStrategy")
    /\ fusion_strategy.mismatch_threshold = 3000
    /\ last.video_result.fake_probability = 8500
    /\ AudioIsValid(last.audio_result)
    /\ last.audio_result.fake_probability = 1500
    /\ last.ret.metadata.security_alert = "MISMATCH_DETECTED"
    /\ last.ret.metadata.threat_vector = "FACE_SWAP_ATTACK"
    /\ last.ret.fake_probability = 8500

\* C12: when the two flags agree (both fake_probability > 0.5 or both <= 0.5)
\* SecurityFirstFusionStrategy.fuse returns 0.7 * video.fake + 0.3 * audio.fake
\* with security_alert null, whatever the disagreement and the threshold;
\* threat_vector is FULL_DEEPFAKE exactly when both are flagged fake and null
\* when neither is.
C12_AgreementBlend ==
    (FusedBy("SecurityFirstFusionStrategy") /\ AudioIsValid(last.audio_result)) =>
        LET v == last.video_result.fake_probability
            a == last.audio_result.fake_probability
            m == last.ret.metadata
        IN  ((v > 5000) = (a > 5000)) =>
                /\ last.ret.fake_probability = (7 * v + 3 * a) \div 10
                /\ (7 * v + 3 * a) % 10 = 0
                /\ m.security_alert = NoValue
                /\ (m.threat_vector = "FULL_DEEPFAKE") <=> (v > 5000 /\ a > 5000)
                /\ (v <= 5000 /\ a <= 5000) => m.threat_vector = NoValue

\* video 0.8 and audio 0.6 at a threshold their distance exceeds: FULL_DEEPFAKE,
\* fused fake 0.74
C12_Witness ==
    /\ FusedBy("SecurityFirstFusionStrategy")
    /\ fusion_strategy.mismatch_threshold = 1000
    /\ last.video_result.fake_probability = 8000
    /\ AudioIsValid(last.audio_result)
    /\ last.audio_result.fake_probability = 6000
    /\ last.ret.metadata.threat_vector = "FULL_DEEPFAKE"
    /\ last.ret.metadata.security_alert = NoValue
    /\ last.ret.fake_probability = 7400

\* C13: every DetectionResult SecurityFirstFusionStrategy.fuse returns, the
\* video-only fallback included, carries the metadata keys security_alert,
\* threat_vector and disagreement and the serialized video result.
C13_MetadataKeys ==
    FusedBy("SecurityFirstFusionStrategy") =>
        {"security_alert", "threat_vector", "disagreement", "video_result"}
            \subseteq DOMAIN last.ret.metadata

\* C14: with each of the five strategies (Weighted, Max, Confidence-Adaptive,
\* Security-First, RL-Adaptive), when the audio result is absent or its
\* metadata carries 'error', fuse raises nothing and returns a result whose
\* fake and real probabilities are the video result's: the probabilities of
\* an error-marked audio result have no influence.
C14_VideoOnlyDegradation ==
    (last.op = "fuse" /\ "video_result" \in DOMAIN last
        /\ ~AudioIsValid(last.audio_result)) =>
            /\ ~last.raised
            /\ last.ret.fake_probability = last.video_result.fake_probability
            /\ last.ret.real_probability = last.video_result.real_probability

\* Security-First was handed video 0.4 and an error-marked audio result of
\* 0.9, which as a valid result would have raised the fused fake probability
C14_Witness ==
    /\ FusedBy("SecurityFirstFusionStrategy")
    /\ fusion_strategy.mismatch_threshold = 3000
    /\ last.video_result.fake_probability = 4000
    /\ "is_none" \notin DOMAIN last.audio_result
    /\ "error" \in DOMAIN last.audio_result.metadata
    /\ last.audio_result.fake_probability = 9000
    /\ last.ret.fake_probability = 4000
    /\ last.ret.real_probability = 6000

\* C15: RLAdaptiveFusion.fuse with the weights (w, 1 - w) returns the fake and
\* real probabilities that WeightedFusionStrategy(w, 1 - w).fuse returns for
\* the same inputs: with valid audio, fused_fake = w * video.fake +
\* (1 - w) * audio.fake and fused_real = 1 - fused_fake.
C15_RLEqualsWeighted ==
    FusedBy("RLAdaptiveFusion") =>
        LET w == weighted_fuse(video_weight, One - video_weight,
                               last.video_result, last.audio_result)
        IN  /\ audio_weight = One - video_weight
            /\ last.ret.fake_probability = w.fake_probability
            /\ last.ret.real_probability = w.real_probability
            /\ AudioIsValid(last.audio_result) =>
                  /\ last.ret.fake_probability =
                        (video_weight * last.video_result.fake_probability
                         + (One - video_weight) * last.audio_result.fake_probability)
                        \div One
                  /\ last.ret.real_probability = One - last.ret.fake_probability

\* the learned pair (0.3, 0.7) applied to video 0.85 and audio 0.15
C15_Witness ==
    /\ FusedBy("RLAdaptiveFusion")
    /\ video_weight = 3000
    /\ last.video_result.fake_probability = 8500
    /\ AudioIsValid(last.audio_result)
    /\ last.audio_result.fake_probability = 1500
    /\ last.ret.fake_probability = 3600
    /\ last.ret.real_probability = 6400

\* two results of RLAdaptiveFusion.fuse that were computed from the same inputs
SameInputs(r1, r2) ==
    /\ r1.metadata.video_result = r2.metadata.video_result
    /\ ("audio_result" \in DOMAIN r1.metadata) = ("audio_result" \in DOMAIN r2.metadata)
    /\ "audio_result" \in DOMAIN r1.metadata =>
          r1.metadata.audio_result = r2.metadata.audio_result

\* C16: fuse is read-only and repeatable: a fuse call leaves video_weight,
\* audio_weight, the reward history, the weight history, the feedback log and
\* the weight file unchanged, and a fuse call that directly follows another
\* with the same inputs returns the same fake and real probabilities and the
\* same weight metadata.
C16_FuseReadOnly ==
    [][ last'.op = "fuse" =>
          /\ video_weight' = video_weight
          /\ audio_weight' = audio_weight
          /\ learning_rate' = learning_rate
          /\ rewards' = rewards
          /\ weight_history' = weight_history
          /\ feedback_data' = feedback_data
          /\ rl_weights' = rl_weights
          /\ (last.op = "fuse" /\ SameInputs(last.ret, last'.ret)) =>
                /\ last'.ret.fake_probability = last.ret.fake_probability
                /\ last'.ret.real_probability = last.ret.real_probability
                /\ last'.ret.metadata = last.ret.metadata ]_vars

\* fuse has combined valid audio with a learned pair that differs from the
\* saved one, on a log that has entries
C16_Witness ==
    /\ last.op = "fuse"
    /\ "audio_result" \in DOMAIN last.ret.metadata
    /\ Len(weight_history) > 0
    /\ Len(feedback_data.lines) > 0
    /\ rl_weights.exists
    /\ rl_weights.video_weight # video_weight
    /\ last.ret.metadata.video_weight = video_weight

\* C17: save_model followed by load_model on a fresh instance (constructed
\* with any initial weight) returns True and gives that instance the saved
\* video_weight and audio_weight: save_model writes the pair it holds,
\* construction leaves the file alone, and load_model adopts the file's pair.
C17_SaveLoadRoundTrip ==
    [][ /\ last'.op = "save_model" =>
              /\ rl_weights'.exists
              /\ rl_weights'.video_weight = video_weight
              /\ rl_weights'.audio_weight = audio_weight
        /\ last'.op = "init" => rl_weights' = rl_weights
        /\ (last'.op = "load_model" /\ rl_weights.exists) =>
              /\ last' = Returned("load_model", [value |-> TRUE])
              /\ video_weight' = rl_weights.video_weight
              /\ audio_weight' = rl_weights.audio_weight
              /\ rl_weights' = rl_weights ]_vars

\* a fresh instance has loaded a learned pair that no constructor argument gives
C17_Witness ==
    /\ last = Returned("load_model", [value |-> TRUE])
    /\ rewards = <<>>
    /\ weight_history = <<>>
    /\ video_weight \notin InitialVideoWeights
    /\ rl_weights.video_weight = video_weight
    /\ rl_weights.audio_weight = audio_weight

\* the file load_model reads has both keys
LoadableFile(file) ==
    /\ file.exists
    /\ "video_weight" \in DOMAIN file
    /\ "audio_weight" \in DOMAIN file

\* C18: load_model is best-effort: when the file is missing, malformed, or
\* lacks video_weight or audio_weight, it raises nothing and leaves both
\* weights exactly as they were.
C18_LoadBestEffort ==
    [][ (last'.op = "load_model" /\ ~LoadableFile(rl_weights)) =>
            /\ ~last'.raised
            /\ video_weight' = video_weight
            /\ audio_weight' = audio_weight ]_vars

\* C19: Confidence-Adaptive fusion reduces to the base weighting at equal
\* confidence: for valid results with video.confidence = audio.confidence > 0
\* the video_weight AdaptiveFusionStrategy.fuse uses is base_video_weight and
\* the audio_weight its complement; when the confidences differ the
\* video_weight moves from there toward the more confident modality.
C19_BaseWeightAtEqualConfidence ==
    (FusedBy("AdaptiveFusionStrategy") /\ AudioIsValid(last.audio_result)) =>
        LET vc == Max(last.video_result.fake_probability,
                      last.video_result.real_probability)
            ac == Max(last.audio_result.fake_probability,
                      last.audio_result.real_probability)
            b  == fusion_strategy.base_video_weight
            m  == last.ret.metadata
        IN  /\ (vc = ac /\ vc > 0) =>
                  /\ m.video_weight = b
                  /\ m.audio_weight = One - b
            /\ vc > ac => m.video_weight >= b
            /\ vc < ac => m.video_weight <= b

\* C19 as the code has it: at equal confidence > 0 the video_weight and the
\* audio_weight of AdaptiveFusionStrategy.fuse are both 0.5, whatever
\* base_video_weight is; when the confidences differ the video_weight is above
\* 0.5 if video is the more confident modality and below 0.5 if audio is.
C19_HalfAtEqualConfidence ==
    (FusedBy("AdaptiveFusionStrategy") /\ AudioIsValid(last.audio_result)) =>
        LET vc == Max(last.video_result.fake_probability,
                      last.video_result.real_probability)
            ac == Max(last.audio_result.fake_probability,
                      last.audio_result.real_probability)
            m  == last.ret.metadata
        IN  /\ (vc = ac /\ vc > 0) =>
                  /\ m.video_weight = 5000
                  /\ m.audio_weight = 5000
            /\ vc > ac => m.video_weight > 5000
            /\ vc < ac => m.video_weight < 5000
            /\ m.audio_weight = One - m.video_weight

\* base_video_weight 0.7, video 0.6 and audio 0.4 (confidence 0.6 each): the
\* weights are 0.5 and 0.5 and the fused fake probability is 0.5
C19_Witness ==
    /\ FusedBy("AdaptiveFusionStrategy")
    /\ fusion_strategy.base_video_weight = 7000
    /\ last.video_result.fake_probability = 6000
    /\ AudioIsValid(last.audio_result)
    /\ last.audio_result.fake_probability = 4000
    /\ last.ret.metadata.video_weight = 5000
    /\ last.ret.fake_probability = 5000

\* C20: after N >= 1 update_from_feedback calls on an initially empty log, K
\* of them with prediction.verdict = user_label (the calls rewarded
\* positively), get_stats returns total N, correct K, incorrect N - K and
\* accuracy K/N; on an empty log it returns total 0 and accuracy 0.
C20_FeedbackStats ==
    (last.op = "get_stats") =>
        LET N == Len(rewards)
            K == Cardinality({ i \in 1..N : rewards[i] > 0 })
            stats == last.ret
        IN  /\ ~last.raised
            /\ N = 0 => (stats.total = 0 /\ stats.accuracy = 0)
            /\ N >= 1 =>
                  /\ stats.total = N
                  /\ stats.correct = K
                  /\ stats.incorrect = N - K
                  /\ stats.accuracy * N <= K * One
                  /\ K * One < (stats.accuracy + 1) * N

\* two feedback calls, one of them agreeing with the verdict: accuracy 1/2
C20_Witness ==
    /\ last.op = "get_stats"
    /\ Len(rewards) = 2
    /\ Len(feedback_data.lines) = 2
    /\ Cardinality({ i \in 1..2 : rewards[i] > 0 }) = 1
    /\ last.ret = [total |-> 2, accuracy |-> 5000, correct |-> 1, incorrect |-> 1]

\* the feedback statistics and weight pair every performance report carries
ReportsStatsAndWeights(s) ==
    LET N == Len(feedback_data.lines)
        K == Cardinality({ i \in 1..N :
                 feedback_data.lines[i].prediction.verdict
                     = feedback_data.lines[i].user_label })
    IN  /\ s.total = N
        /\ s.correct = K
        /\ s.incorrect = N - K
        /\ s.current_weights = [video |-> video_weight, audio |-> audio_weight]

\* avg is the mean, rounded down, of the last min(Len(rewards), 100) rewards
IsAvgOfRecentRewards(avg) ==
    LET N == Len(rewards)
        cnt == IF N < 100 THEN N ELSE 100
        S == Sum(SubSeq(rewards, N - cnt + 1, N))
    IN  /\ avg * cnt <= S
        /\ S < (avg + 1) * cnt

\* C21: get_performance_stats returns the feedback statistics and the current
\* weight pair plus avg_reward, the mean of the most recent 100 rewards, and
\* recent_accuracy, the fraction of the most recent 20 feedback events whose
\* prediction was correct; recent_accuracy is omitted from the result whenever
\* fewer than 20 rewards exist.
C21_RecentAccuracyOmitted ==
    (last.op = "get_performance_stats" /\ ~last.raised) =>
        LET N == Len(rewards)
            s == last.ret
        IN  /\ ReportsStatsAndWeights(s)
            /\ N >= 1 => IsAvgOfRecentRewards(s.avg_reward)
            /\ N >= 20 =>
                  s.recent_accuracy * 20 = One * Cardinality({ i \in (N - 19)..N :
                      feedback_data.lines[i].prediction.verdict
                          = feedback_data.lines[i].user_label })
            /\ N < 20 => "recent_accuracy" \notin DOMAIN s

\* C21 as the code has it: with no reward recorded the report carries neither
\* avg_reward nor recent_accuracy; with 1 to 19 rewards it carries avg_reward
\* and recent_accuracy = None; from 20 rewards on recent_accuracy is the
\* fraction of the most recent 20 rewards that are positive.  avg_reward is
\* the mean of the most recent 100 rewards.
C21_PerformanceStats ==
    (last.op = "get_performance_stats" /\ ~last.raised) =>
        LET N == Len(rewards)
            s == last.ret
        IN  /\ ReportsStatsAndWeights(s)
            /\ N = 0 => /\ "avg_reward" \notin DOMAIN s
                        /\ "recent_accuracy" \notin DOMAIN s
            /\ N >= 1 => IsAvgOfRecentRewards(s.avg_reward)
            /\ (N >= 1 /\ N < 20) => s.recent_accuracy = NoneVal
            /\ N >= 20 =>
                  s.recent_accuracy * 20 =
                      One * Cardinality({ i \in (N - 19)..N : rewards[i] > 0 })

\* 101 feedbacks, the first agreeing and the other 100 disagreeing at
\* confidence 0.8: both windows have dropped the agreeing one
C21_Witness ==
    /\ last.op = "get_performance_stats"
    /\ ~last.raised
    /\ Len(rewards) = 101
    /\ rewards[1] > 0
    /\ last.ret.total = 101
    /\ last.ret.correct = 1
    /\ last.ret.avg_reward = -8000
    /\ last.ret.recent_accuracy = 0

\* C22: user_confidence is sanitized by clamping: a call of
\* update_from_feedback with user_confidence outside [0,1] is not rejected
\* and behaves as if the value were clamped, so the user_confidence stored in
\* the feedback entry, the magnitude of the recorded reward and the factor of
\* the weight step learning_rate * user_confidence all lie in [0,1].
C22_ConfidenceClamped ==
    [][ last'.op = "update_from_feedback" =>
          LET entry == feedback_data'.lines[Len(feedback_data'.lines)]
              reward == rewards'[Len(rewards')]
          IN  /\ ~last'.raised
              /\ entry.user_confidence >= 0
              /\ entry.user_confidence <= One
              /\ reward >= -One
              /\ reward <= One
              /\ (video_weight >= MinVideoWeight /\ video_weight <= MaxVideoWeight) =>
                    Abs(video_weight' - video_weight) <= learning_rate ]_vars

\* C23: startup validates the mismatch threshold: constructing the detector
\* under a configured mismatch_threshold outside the open interval (0,1) is a
\* fatal startup error, and no Security-First strategy ever exists with such
\* a threshold.
C23_MismatchThresholdValidated ==
    /\ fusion_strategy.class = "SecurityFirstFusionStrategy" =>
          /\ fusion_strategy.mismatch_threshold > 0
          /\ fusion_strategy.mismatch_threshold < One
    /\ (last.op = "DeepFakeDetector"
          /\ ~(last.config.MISMATCH_THRESHOLD > 0 /\ last.config.MISMATCH_THRESHOLD < One))
       => last.raised

\* C24: probabilities are always in [0,1]: every DetectionResult, constructed
\* from arbitrary numbers or returned by the fuse of any strategy under any
\* configured or learned weights, has fake_probability and real_probability
\* in [0,1]; is_fake is true exactly when fake_probability > real_probability
\* and confidence is the larger of the two.
C24_ProbabilitiesInRange ==
    (last.op \in {"fuse", "DetectionResult"}) =>
        LET r == last.ret
            larger == IF r.fake_probability >= r.real_probability
                      THEN r.fake_probability ELSE r.real_probability
        IN  /\ r.fake_probability >= 0
            /\ r.fake_probability <= One
            /\ r.real_probability >= 0
            /\ r.real_probability <= One
            /\ to_dict(r).is_fake <=> (r.fake_probability > r.real_probability)
            /\ to_dict(r).confidence = larger
            /\ confidence(r) = larger

\* weights (1.2, -0.2) on video 1.0 and audio 0.0: the blend 1.2 and its
\* complement -0.2 come back as 1.0 and 0.0
C24_Witness ==
    /\ FusedBy("WeightedFusionStrategy")
    /\ fusion_strategy.video_weight = 12000
    /\ last.video_result.fake_probability = 10000
    /\ AudioIsValid(last.audio_result)
    /\ last.audio_result.fake_probability = 0
    /\ last.ret.fake_probability = 10000
    /\ last.ret.real_probability = 0

\* C25: Security-First is conservative: with a valid audio result, the fused
\* result of SecurityFirstFusionStrategy.fuse is flagged fake (fake > real)
\* if and only if at least one modality is flagged fake (video.fake > 0.5 or
\* audio.fake > 0.5), for every mismatch_threshold; in particular it is
\* flagged fake whenever MISMATCH_DETECTED is raised.
C25_Conservative ==
    (FusedBy("SecurityFirstFusionStrategy") /\ AudioIsValid(last.audio_result)) =>
        LET v == last.video_result.fake_probability
            a == last.audio_result.fake_probability
            fused_is_fake == last.ret.fake_probability > last.ret.real_probability
        IN  /\ fused_is_fake <=> (v > 5000 \/ a > 5000)
            /\ last.ret.metadata.security_alert = "MISMATCH_DETECTED" => fused_is_fake

\* only audio is flagged (0.6 against video 0.4) and the gap stays below the
\* threshold 0.6: no alert, and the fused result is flagged fake all the same
C25_Witness ==
    /\ FusedBy("SecurityFirstFusionStrategy")
    /\ fusion_strategy.mismatch_threshold = 6000
    /\ last.video_result.fake_probability = 4000
    /\ AudioIsValid(last.audio_result)
    /\ last.audio_result.fake_probability = 6000
    /\ last.ret.metadata.security_alert = NoValue
    /\ last.ret.fake_probability = 6000
    /\ last.ret.real_probability = 4000

\* C26: the Security-First boundary case is degenerate: for every valid
\* input pair whose probabilities are not at an equality edge (neither fake
\* probability is 0.5, the disagreement is neither the threshold nor 0.2) one
\* of the mismatch, both-fake or both-real cases applies, so the boundary
\* branch is never taken and LOW_CONFIDENCE is never emitted.
C26_BoundaryDegenerate ==
    (FusedBy("SecurityFirstFusionStrategy") /\ AudioIsValid(last.audio_result)) =>
        LET v == last.video_result.fake_probability
            a == last.audio_result.fake_probability
            m == last.ret.metadata
            at_edge == \/ v = 5000
                       \/ a = 5000
                       \/ Abs(v - a) = fusion_strategy.mismatch_threshold
                       \/ Abs(v - a) = 2000
        IN  ~at_edge =>
                /\ m.security_alert # "LOW_CONFIDENCE"
                /\ \/ m.security_alert = "MISMATCH_DETECTED"
                   \/ (v > 5000) = (a > 5000)

\* C26 as the code has it: the boundary branch is taken exactly when the two
\* flags differ and the disagreement does not exceed mismatch_threshold; it
\* returns max(video.fake, audio.fake) with threat_vector null, and
\* security_alert is LOW_CONFIDENCE exactly when, in that branch, the
\* disagreement exceeds 0.2.
C26_BoundaryBranch ==
    (FusedBy("SecurityFirstFusionStrategy") /\ AudioIsValid(last.audio_result)) =>
        LET v == last.video_result.fake_probability
            a == last.audio_result.fake_probability
            m == last.ret.metadata
            boundary == /\ (v > 5000) # (a > 5000)
                        /\ Abs(v - a) <= fusion_strategy.mismatch_threshold
        IN  /\ boundary =>
                  /\ last.ret.fake_probability = Max(v, a)
                  /\ m.threat_vector = NoValue
                  /\ m.security_alert # "MISMATCH_DETECTED"
            /\ (m.security_alert = "LOW_CONFIDENCE") <=> (boundary /\ Abs(v - a) > 2000)

\* video 0.8 and audio 0.4 under threshold 0.6, none of them at an edge:
\* LOW_CONFIDENCE, fused fake 0.8
C26_Witness ==
    /\ FusedBy("SecurityFirstFusionStrategy")
    /\ fusion_strategy.mismatch_threshold = 6000
    /\ last.video_result.fake_probability = 8000
    /\ AudioIsValid(last.audio_result)
    /\ last.audio_result.fake_probability = 4000
    /\ last.ret.metadata.security_alert = "LOW_CONFIDENCE"
    /\ last.ret.metadata.threat_vector = NoValue
    /\ last.ret.fake_probability = 8000

\* a feedback of session-handler submit_video_feedback was graded in this step
Graded == last'.op = "submit_video_feedback" /\ "total" \in DOMAIN last'.ret

\* the response came from an analysis whose audio result was absent or
\* carried an error marker (the fusion strategies then use the video alone)
VideoOnlyResponse(prediction) ==
    \/ "is_none" \in DOMAIN prediction.details.audio_metadata
    \/ "error" \in DOMAIN prediction.details.audio_metadata

\* C27: feedback on a video-only verdict never moves the weights: if the
\* fused verdict was produced video-only because the audio result was absent
\* or carried an error marker, update_from_feedback on the response that
\* _format_response built from it leaves video_weight and audio_weight
\* unchanged, for every user_label.
C27_VideoOnlyFeedbackKeepsWeights ==
    [][ (Graded /\ VideoOnlyResponse(last'.prediction)) =>
          /\ video_weight' = video_weight
          /\ audio_weight' = audio_weight ]_vars

\* the verdict the claim derives from a fused result
derived_verdict(fused_result) ==
    IF /\ "security_alert" \in DOMAIN fused_result.metadata
       /\ fused_result.metadata.security_alert = "MISMATCH_DETECTED"
    THEN "SUSPICIOUS"
    ELSE IF fused_result.fake_probability > fused_result.real_probability
         THEN "FAKE"
         ELSE "REAL"

\* an analysis that reached fusion returns the derived verdict, which under
\* rl_adaptive is not SUSPICIOUS
VerdictDerivation ==
    (/\ last'.op = "analyze_video_mode"
     /\ "is_none" \notin DOMAIN last'.analysis
     /\ "fails" \notin DOMAIN last'.analysis) =>
        /\ last_prediction'.verdict =
              derived_verdict(strategy_fuse(fusion_strategy,
                                            last'.analysis.video_result,
                                            last'.analysis.audio_result))
        /\ fusion_strategy = RLAdaptive => last_prediction'.verdict # "SUSPICIOUS"

\* a graded feedback with label SUSPICIOUS counts as incorrect and, when the
\* response has both scores, appends one adjustment to the weight history
SuspiciousGradedIncorrect ==
    (Graded /\ feedback_data'.lines[Len(feedback_data'.lines)].user_label = "SUSPICIOUS") =>
        /\ feedback_stats(feedback_data').incorrect =
              feedback_stats(feedback_data).incorrect + 1
        /\ last'.prediction.audio_fake_score # NoneVal =>
              /\ Len(weight_history') = Len(weight_history) + 1
              /\ weight_history'[Len(weight_history')].video_weight = video_weight'
              /\ weight_history'[Len(weight_history')].audio_weight = audio_weight'

\* the reward of a graded feedback with label SUSPICIOUS is negative
SuspiciousRewardNegative ==
    (Graded /\ feedback_data'.lines[Len(feedback_data'.lines)].user_label = "SUSPICIOUS") =>
        rewards'[Len(rewards')] < 0

\* the reward of a graded feedback with label SUSPICIOUS is minus the
\* confidence: negative unless the slider stood at 0, and then 0
SuspiciousRewardNotPositive ==
    (Graded /\ feedback_data'.lines[Len(feedback_data'.lines)].user_label = "SUSPICIOUS") =>
        LET entry == feedback_data'.lines[Len(feedback_data'.lines)]
        IN  /\ rewards'[Len(rewards')] = -entry.user_confidence
            /\ rewards'[Len(rewards')] <= 0
            /\ rewards'[Len(rewards')] < 0 <=> entry.user_confidence > 0

\* C28 as stated: the verdict is SUSPICIOUS exactly on a MISMATCH_DETECTED
\* alert, else FAKE when fused fake > fused real and REAL otherwise; under
\* rl_adaptive it is never SUSPICIOUS, so every feedback with user_label
\* SUSPICIOUS is graded incorrect with a negative reward and, when both
\* scores are present, takes the weight-update branch.
C28_SuspiciousAlwaysNegative ==
    [][ VerdictDerivation /\ SuspiciousGradedIncorrect /\ SuspiciousRewardNegative ]_vars

\* C28 amended: as above, with the reward equal to minus the submitted
\* confidence, which is 0 and not negative when the slider stands at 0.
C28_VerdictDerivation ==
    [][ VerdictDerivation /\ SuspiciousGradedIncorrect /\ SuspiciousRewardNotPositive ]_vars

\* under rl_adaptive a SUSPICIOUS feedback at full confidence on a response
\* with both scores was graded and entered the weight history
C28_Witness ==
    /\ fusion_strategy = RLAdaptive
    /\ last.op = "submit_video_feedback"
    /\ "total" \in DOMAIN last.ret
    /\ feedback_data.lines[1].user_label = "SUSPICIOUS"
    /\ last.prediction.audio_fake_score # NoneVal
    /\ rewards = <<-One>>
    /\ Len(weight_history) = 1

\* C29: feedback is graded against the submitter's own prediction, once:
\* when two sessions interleave analyze_video_mode and submit_video_feedback
\* on the shared detector, each feedback is applied to the prediction the
\* submitting session last received (never to the other session's), and a
\* single prediction contributes at most one feedback entry and one weight
\* adjustment.
C29_OwnPredictionOnce ==
    [][ Graded =>
          LET page == frame[last'.session]
              entry == feedback_data'.lines[Len(feedback_data'.lines)]
          IN  /\ "shown" \in DOMAIN page
              /\ entry.prediction = page.shown
              /\ page.submitted = 0 ]_vars

\* a run has started and lowers the video weight
RunDown ==
    /\ Len(feedback_data.lines) > 0
    /\ lowers_video(feedback_data.lines[1].prediction,
                    feedback_data.lines[1].user_label)

\* a run has started and raises the video weight
RunUp ==
    /\ Len(feedback_data.lines) > 0
    /\ ~lowers_video(feedback_data.lines[1].prediction,
                     feedback_data.lines[1].user_label)

AtFloor == video_weight = MinVideoWeight /\ audio_weight = One - MinVideoWeight

AtCeiling == video_weight = MaxVideoWeight /\ audio_weight = One - MaxVideoWeight

\* C30: convergence to the bound: from any video_weight in [0.5, 0.95] with
\* learning_rate * user_confidence > 0, a run of incorrect-prediction
\* feedbacks in which audio_error <= video_error reaches video_weight = 0.5
\* after finitely many updates and every further such update leaves the pair
\* at (0.5, 0.5); symmetrically a run in which video_error < audio_error
\* reaches video_weight = 0.95 and stays there.
C30_Convergence ==
    /\ [](RunDown => <>[]AtFloor)
    /\ [](RunUp => <>[]AtCeiling)

\* a lowering run that started above 0.5 has reached (0.5, 0.5) and a further
\* update of the run left it there
C30_Witness ==
    /\ RunDown
    /\ Len(weight_history) >= 3
    /\ weight_history[1].video_weight > MinVideoWeight
    /\ weight_history[Len(weight_history) - 1].video_weight = MinVideoWeight
    /\ last.op = "update_from_feedback"
    /\ AtFloor

====
